---- MODULE Spec2Model ----
(***************************************************************************)
(* Order monitoring and state tracking of the RetailCRM Telegram bot:      *)
(* the processed-order ledger (database/db_service.py), the fixed-window   *)
(* rate limiter (services/rate_limiter.py), the monitor's order check and  *)
(* notification fan-out and the monitor loop                               *)
(* (services/order_monitor_service.py), and the button handlers            *)
(* (handlers/order_callback_handler.py).                                   *)
(***************************************************************************)
EXTENDS Integers, Sequences, FiniteSets, TLC

VARIABLES
    processed_orders,   \* table processed_orders: order_id -> row
    dbUp,               \* the SQLite store answers (FALSE: every call raises)
    lastCall,           \* the DatabaseService call just made directly: arguments, table before, result
    trip,               \* per order, how far a no-product round trip made of direct calls has got
    redis,              \* RateLimiter.redis: "client", or "None" when construction failed
    rl_store,           \* the Redis keys of the limiter: key -> [value, ttl]
    rl_limit,           \* the limit the caller passes
    rl_window,          \* the window (seconds) the caller passes
    rl_win,             \* per key, the window as time defines it: age of its first check, checks in it
    rl_last,            \* key and result of the check_rate_limit call just made
    rl_failed,          \* some store call of the limiter has failed so far
    rl_admitted,        \* per key, the checks answered is_limited = False at this second and at each of the rl_window seconds before it, newest first
    STATUS_RETURNED,    \* OrderMonitorService.STATUS_RETURNED, as configured
    crm,                \* the backend's orders: order_id -> [status, shipmentStore, delivery]
    tick,               \* the check_orders_with_status call in progress, if any
    dispatched,         \* per order, how often send_notification_to_warehouse_admins was called for it
    delivered_ever,     \* per order, some chat holds a notification of it with its buttons
    detected,           \* orders the monitor has found returned from no-product
    runs,               \* checks started
    pickup_button,      \* per order, a chat shows its "picked up" button
    is_running,         \* OrderMonitorService.is_running
    task,               \* OrderMonitorService.task: "None", "pending" or "done"
    loop_pc,            \* where monitor_loop stands
    error_counter,      \* monitor_loop's error_counter
    cleanup_counter,    \* monitor_loop's cleanup_counter
    cancel_requested,   \* task.cancel() was called and not yet delivered
    stop_called,        \* stop() has run for the current task
    stop_waiting,       \* a stop() call is suspended at "await self.task"
    orphans,            \* cancelled loop tasks, not yet over, that self.task no longer holds
    stop_returned,      \* a stop() that cleared is_running has returned, with no start() since it began
    exit_cause,         \* what ended monitor_loop
    raised_in,          \* the part of the tick body that raised during this tick
    req,                \* the RetailCRMService request in progress: method, attempts so far, how it ended
    press,              \* the button press being handled: its inputs, where the handling stands, answer calls made
    sweep,              \* the clock, the notified_at values of table processed_orders, and the last retention sweep
    batch,              \* one check_orders_with_status call followed candidate by candidate, and the two log tables
    tables,             \* the kinds of rows (inside / past the retention horizon) each table holds
    cache,              \* the wall clock, last_cache_refresh_date and the product cache
    buttons,            \* per order and admin chat, the keyboard under the order's notification there; and table order_actions
    handling,           \* a button handler from its call to its return: the limiter keys of the four actions, the press in progress and what it caused
    parsed,             \* the text just parsed and what the parser made of it
    audit               \* tables order_actions and admin_stats of one admin and day, and the log_order_action call in progress

ledgerVars == <<processed_orders, dbUp, lastCall, trip>>

limiterVars == <<redis, rl_store, rl_limit, rl_window, rl_win, rl_last, rl_failed, rl_admitted>>

monitorVars == <<STATUS_RETURNED, crm, tick, dispatched, delivered_ever, detected, runs>>
handlerVars == <<pickup_button>>
unitVars == <<req, audit, press, sweep, parsed>>
lateVars == <<handling, buttons>>
houseVars == <<batch, tables, cache, lateVars>>
loopVars == <<is_running, task, loop_pc, error_counter, cleanup_counter,
              cancel_requested, stop_called, stop_waiting, orphans, stop_returned,
          exit_cause, raised_in>>

\* What the limiter's steps leave alone, and what the ledger's direct calls leave alone.
notLimiterVars == <<ledgerVars, monitorVars, handlerVars, loopVars, unitVars, houseVars>>
notLedgerVars == <<limiterVars, monitorVars, handlerVars, loopVars, unitVars, houseVars>>
notMonitorVars == <<lastCall, trip, limiterVars, handlerVars, loopVars, unitVars, houseVars>>
notLoopVars == <<ledgerVars, limiterVars, monitorVars, handlerVars, unitVars, houseVars>>

vars == <<processed_orders, dbUp, lastCall, trip,
          redis, rl_store, rl_limit, rl_window, rl_win, rl_last, rl_failed, rl_admitted,
          STATUS_RETURNED, crm, tick, dispatched, delivered_ever, detected, runs,
          pickup_button,
          is_running, task, loop_pc, error_counter, cleanup_counter,
          cancel_requested, stop_called, stop_waiting, orphans, stop_returned,
          exit_cause, raised_in,
          req, audit, press, sweep, parsed,
          batch, tables, cache, handling, buttons>>

----------------------------------------------------------------------------
(* Bounds and vocabularies *)

MaxOrders == 1
Orders == 1..MaxOrders

TARGET_STATUS_CODE == "target"

Warehouses == {"20", "25"}
DeliveryTypes == {"self-delivery", "courier"}

\* notified_at relative to the retention horizon: "fresh" is inside the
\* horizon, "stale" is older than it.
Ages == {"fresh", "stale"}

Row == [status : {TARGET_STATUS_CODE},
        warehouse_code : Warehouses \cup {"N/A"},
        delivery_type : DeliveryTypes \cup {""},
        was_in_no_product : BOOLEAN,
        returned_from_no_product : BOOLEAN,
        bouquet_ready_notified : BOOLEAN,
        notified_at : Ages]

----------------------------------------------------------------------------
(* DatabaseService: each operator is one method; `up` is whether the store *)
(* answers. A method that catches its own errors returns ret = FALSE with   *)
(* the table unchanged; raised = TRUE is an exception leaving the method.  *)

is_order_processed(po, o) == o \in DOMAIN po

NewRow(wh, dt) ==
    [status |-> TARGET_STATUS_CODE, warehouse_code |-> wh, delivery_type |-> dt,
     was_in_no_product |-> FALSE, returned_from_no_product |-> FALSE,
     bouquet_ready_notified |-> FALSE, notified_at |-> "fresh"]

\* INSERT OR REPLACE ... VALUES (..., 0, 0, CURRENT_TIMESTAMP): the row is
\* replaced whole, the flags are written as 0 and the other columns take
\* their defaults.
save_row(po, o, wh, dt) == NewRow(wh, dt)

save_processed_order(po, up, o, wh, dt) ==
    IF up
    THEN [db |-> [x \in DOMAIN po \cup {o} |->
                    IF x = o THEN save_row(po, o, wh, dt) ELSE po[x]],
          ret |-> TRUE]
    ELSE [db |-> po, ret |-> FALSE]

\* UPDATE ... WHERE order_id = ?: no row, no change; returns True either way.
mark_order_in_no_product(po, up, o) ==
    IF up
    THEN [db |-> [x \in DOMAIN po |->
                    IF x = o THEN [po[x] EXCEPT !.was_in_no_product = TRUE] ELSE po[x]],
          ret |-> TRUE]
    ELSE [db |-> po, ret |-> FALSE]

mark_order_returned_from_no_product(po, up, o) ==
    IF up
    THEN [db |-> [x \in DOMAIN po |->
                    IF x = o THEN [po[x] EXCEPT !.returned_from_no_product = TRUE] ELSE po[x]],
          ret |-> TRUE]
    ELSE [db |-> po, ret |-> FALSE]

\* A reset that deletes whatever row there is, without looking at the flag.
reset_guard_any_row(po, o) == o \in DOMAIN po

\* "if not result or not result['was_in_no_product']: return False"
reset_guard(po, o) == o \in DOMAIN po /\ po[o].was_in_no_product

reset_order_for_renotification(po, up, o) ==
    IF up /\ reset_guard(po, o)
    THEN [db |-> [x \in DOMAIN po \ {o} |-> po[x]], ret |-> TRUE]
    ELSE [db |-> po, ret |-> FALSE]

\* DELETE FROM processed_orders WHERE notified_at < cutoff
remove_old_processed_orders(po) ==
    [x \in {y \in DOMAIN po : po[y].notified_at # "stale"} |-> po[x]]

----------------------------------------------------------------------------
(* RateLimiter: fixed-window counter on Redis *)

MaxUsers == 1
MaxLimit == 2
MaxWindow == 2
\* How far past the limit a counter is followed.
MaxExtra == 2

\* _get_key: one key per (action, identifier)
RlKeys == {<<"confirm_order", u>> : u \in 1..MaxUsers}

\* Redis TTL: -2 when the key does not exist, -1 when it has no expiry.
NoKey == [value |-> 0, ttl |-> -2]

Max0(n) == IF n > 0 THEN n ELSE 0

\* A check that blocks the caller when the store cannot be reached.
on_store_error_blocking(limit) == [is_limited |-> TRUE, remaining |-> 0]

\* "return False, limit": redis is None, or a store call raised
on_store_error(limit) == [is_limited |-> FALSE, remaining |-> limit]

\* A limit check that already blocks the limit-th request.
is_limited_at_limit(current, limit) == current >= limit

\* "is_limited = current > limit"
is_limited(current, limit) == current > limit

\* "if current == 1: self.redis.expire(key, window)"
expire_wanted(current) == current = 1

\* An expiry of one second whatever the window.
expire_seconds_one(window) == 1

\* The expiry put on the key: "self.redis.expire(key, window)"
expire_seconds(window) == window

\* Where a store call of one check can fail.
FailPoints == {"none", "incr", "expire", "ttl"}

\* check_rate_limit for one key whose Redis entry is e; fail names the store
\* call that raises. Returns the entry afterwards and the result.
check_rate_limit(client, e, limit, window, fail) ==
    IF client = "None" \/ fail = "incr"
    THEN [entry |-> e, res |-> on_store_error(limit), failed |-> TRUE]
    ELSE LET current == e.value + 1
             incremented == [value |-> current, ttl |-> IF e.ttl = -2 THEN -1 ELSE e.ttl]
         IN  IF expire_wanted(current) /\ fail = "expire"
             THEN [entry |-> incremented, res |-> on_store_error(limit), failed |-> TRUE]
             ELSE LET after == IF expire_wanted(current)
                               THEN [incremented EXCEPT !.ttl = expire_seconds(window)]
                               ELSE incremented
                  IN  IF is_limited(current, limit) /\ fail = "ttl"
                      THEN [entry |-> after, res |-> on_store_error(limit), failed |-> TRUE]
                      ELSE [entry |-> after,
                            res |-> [is_limited |-> is_limited(current, limit),
                                     remaining |-> Max0(limit - current)],
                            failed |-> FALSE]

\* The store call named by fail is made by this check.
FailPointReached(e, limit, fail) ==
    \/ fail \in {"none", "incr"}
    \/ fail = "expire" /\ expire_wanted(e.value + 1)
    \/ fail = "ttl" /\ is_limited(e.value + 1, limit)
         /\ ~(expire_wanted(e.value + 1))

NoWindow == [age |-> -1, count |-> 0]
NoCheck == [key |-> <<"none", 0>>, is_limited |-> FALSE, remaining |-> 0, failed |-> FALSE]

LimiterInit ==
    /\ redis \in {"client", "None"}
    /\ rl_store = [k \in RlKeys |-> NoKey]
    /\ rl_limit \in 1..MaxLimit
    /\ rl_window \in 1..MaxWindow
    /\ rl_win = [k \in RlKeys |-> NoWindow]
    /\ rl_last = NoCheck
    /\ rl_failed = FALSE
    /\ rl_admitted = [k \in RlKeys |-> [i \in 1..(rl_window + 1) |-> 0]]

LimiterIdleInit ==
    /\ redis = "client"
    /\ rl_store = [k \in RlKeys |-> NoKey]
    /\ rl_limit = 1
    /\ rl_window = 1
    /\ rl_win = [k \in RlKeys |-> NoWindow]
    /\ rl_last = NoCheck
    /\ rl_failed = FALSE
    /\ rl_admitted = [k \in RlKeys |-> [i \in 1..(rl_window + 1) |-> 0]]

\* One call of check_rate_limit(identifier, action, limit, window).
CheckRateLimit(k, fail) ==
    /\ rl_store[k].value < rl_limit + MaxExtra
    /\ rl_win[k].count < rl_limit + MaxExtra
    /\ redis = "client" => FailPointReached(rl_store[k], rl_limit, fail)
    /\ redis = "None" => fail = "none"
    /\ LET r == check_rate_limit(redis, rl_store[k], rl_limit, rl_window, fail) IN
       /\ rl_store' = [rl_store EXCEPT ![k] = r.entry]
       /\ rl_last' = [key |-> k, is_limited |-> r.res.is_limited,
                      remaining |-> r.res.remaining, failed |-> r.failed]
       /\ rl_failed' = (rl_failed \/ r.failed)
       /\ rl_admitted' = [rl_admitted EXCEPT ![k][1] = IF r.res.is_limited THEN @ ELSE @ + 1]
    /\ rl_win' = [rl_win EXCEPT ![k] =
                    IF @.age = -1 \/ @.age >= rl_window
                    THEN [age |-> 0, count |-> 1]
                    ELSE [@ EXCEPT !.count = @ + 1]]
    /\ UNCHANGED <<redis, rl_limit, rl_window>>
    /\ UNCHANGED notLimiterVars

\* One second passes: Redis counts every expiry down and drops a key whose
\* expiry is reached.
SecondPasses ==
    /\ rl_store' = [k \in RlKeys |->
                      IF rl_store[k].ttl = 1 THEN NoKey
                      ELSE IF rl_store[k].ttl > 1
                           THEN [rl_store[k] EXCEPT !.ttl = @ - 1]
                           ELSE rl_store[k]]
    /\ rl_win' = [k \in RlKeys |->
                    IF rl_win[k].age >= 0 /\ rl_win[k].age < rl_window
                    THEN [rl_win[k] EXCEPT !.age = @ + 1]
                    ELSE rl_win[k]]
    /\ rl_admitted' = [k \in RlKeys |->
                         <<0>> \o SubSeq(rl_admitted[k], 1, Len(rl_admitted[k]) - 1)]
    /\ <<rl_store', rl_win', rl_admitted'>> # <<rl_store, rl_win, rl_admitted>>
    /\ UNCHANGED <<redis, rl_limit, rl_window, rl_last, rl_failed>>
    /\ UNCHANGED notLimiterVars

LimiterNext ==
    \/ \E k \in RlKeys, fail \in FailPoints : CheckRateLimit(k, fail)
    \/ SecondPasses

----------------------------------------------------------------------------
(* OrderMonitorService: the order check and the notification fan-out *)

\* Admins configured for warehouse "20"; warehouse "25" has none.
NumAdmins == 2
\* Checks followed when the monitor runs alone.
MaxRuns == 2
\* dispatched counts up to here.
MaxDispatch == 3

NoStore == "none"

\* Status codes. The target status is polled; the codes of the handlers and
\* the returned code come from Settings.
STATUS_DISCUSSION == "discussion"
STATUS_CONFIRMED == "confirmed"
STATUS_SELF_PICKUP_READY == "self-pickup"
STATUS_COMPLETED == "complete"
Statuses == {TARGET_STATUS_CODE, "returned", "other", STATUS_DISCUSSION,
             STATUS_CONFIRMED, STATUS_SELF_PICKUP_READY, STATUS_COMPLETED}

\* A warehouse whose admins are all configured with one group chat
\* ("USER_ID:WAREHOUSE_CODE:CHAT_ID" with the same CHAT_ID).
GroupStore == "27"

\* admin_config in its order: one admin of another warehouse, then the
\* admins of warehouse "20".
admin_config ==
    <<[user_id |-> 100, warehouse |-> "30", chat_id |-> 100]>>
    \o [i \in 1..NumAdmins |-> [user_id |-> i, warehouse |-> "20", chat_id |-> i]]
    \o [i \in 1..NumAdmins |-> [user_id |-> 270 + i, warehouse |-> GroupStore,
                                 chat_id |-> 270]]

\* All admins, whatever their warehouse.
get_admins_for_warehouse_any(code) == admin_config
get_admins_for_warehouse(code) ==
    SelectSeq(admin_config, LAMBDA a : a.warehouse = code)

\* order.get('shipmentStore', 'N/A')
WarehouseCode(order) ==
    IF order.shipmentStore = NoStore THEN "N/A" ELSE order.shipmentStore

\* get_orders_by_status: the orders at the status, in the backend's order;
\* [] when the request fails.
RECURSIVE OrdersAt(_, _)
OrdersAt(status, n) ==
    IF n = 0 THEN << >>
    ELSE OrdersAt(status, n - 1) \o (IF crm[n].status = status THEN <<n>> ELSE << >>)

get_orders_by_status(status, ok) == IF ok THEN OrdersAt(status, MaxOrders) ELSE << >>

\* get_all_processed_orders: the rows, newest first (here: highest id first);
\* [] when the store fails.
RECURSIVE RowsOf(_, _)
RowsOf(po, n) ==
    IF n = 0 THEN << >>
    ELSE (IF n \in DOMAIN po THEN <<n>> ELSE << >>) \o RowsOf(po, n - 1)

get_all_processed_orders(po, up) == IF up THEN RowsOf(po, MaxOrders) ELSE << >>

\* _check_orders_returned_from_no_product over the rows `scan`: fetched is
\* the set of orders get_order_by_id answers for.
RECURSIVE scan_processed_orders(_, _, _, _, _)
\* The loop of _check_orders_returned_from_no_product over the rows: markUp /
\* resetUp are whether the store answers mark_order_returned_from_no_product /
\* reset_order_for_renotification, whose returns are not looked at.
scan_processed_orders(po, scan, fetched, markUp, resetUp) ==
    IF scan = << >> THEN [db |-> po, returned |-> << >>]
    ELSE LET o == Head(scan)
             row == po[o]
             hit == /\ row.was_in_no_product
                    /\ ~row.returned_from_no_product
                    /\ o \in fetched
                    /\ crm[o].status = STATUS_RETURNED
             marked == mark_order_returned_from_no_product(po, markUp, o).db
             po2 == IF hit THEN reset_order_for_renotification(marked, resetUp, o).db ELSE po
             rest == scan_processed_orders(po2, Tail(scan), fetched, markUp, resetUp)
         IN  [db |-> rest.db,
              returned |-> (IF hit THEN <<o>> ELSE << >>) \o rest.returned]

\* _check_orders_returned_from_no_product with the store up or down for the
\* whole call.
check_orders_returned(po, up, scan, fetched) ==
    scan_processed_orders(po, scan, fetched, up, up)

\* all_orders = (orders or []) + (returned_from_no_product or [])
all_orders(orders, returned) == orders \o returned

\* new_orders = [order for order in all_orders if not is_order_processed(id)]
new_orders(po, all) == SelectSeq(all, LAMBDA o : ~is_order_processed(po, o))

Inc(n) == IF n < MaxDispatch THEN n + 1 ELSE n

IdleTick == [pc |-> "idle", queue |-> << >>, idx |-> 0, phase |-> "-",
             images |-> FALSE, log |-> << >>, outcome |-> "-", save_ret |-> FALSE]

\* The order being processed and its recipients.
Current == Head(tick.queue)
Targets == get_admins_for_warehouse(crm[Current].shipmentStore)

\* The monitor task is suspended at an await (or between checks): only then
\* do other coroutines run.
Suspended == tick.pc \in {"idle", "send", "delay"}

\* check_orders_with_status up to its first order. pollOk: the status poll
\* answered; fetched: the orders get_order_by_id answers for.
check_orders_body(pollOk, fetched) ==
    /\ tick.pc = "idle"
    /\ LET orders == get_orders_by_status(TARGET_STATUS_CODE, pollOk)
           det == check_orders_returned(processed_orders, dbUp,
                      get_all_processed_orders(processed_orders, dbUp), fetched)
           all == all_orders(orders, det.returned)
       IN  /\ processed_orders' = det.db
           /\ detected' = detected \cup {det.returned[i] : i \in DOMAIN det.returned}
           /\ IF all # << >> /\ dbUp /\ new_orders(det.db, all) # << >>
              THEN tick' = [IdleTick EXCEPT !.pc = "next", !.queue = new_orders(det.db, all)]
              ELSE tick' = IdleTick
    /\ UNCHANGED <<dbUp, STATUS_RETURNED, crm, dispatched, delivered_ever>>

\* The check on its own, the rest of the program standing still.
check_orders_with_status(pollOk, fetched) ==
    /\ check_orders_body(pollOk, fetched)
    /\ UNCHANGED notMonitorVars

\* The body of "for order in new_orders" up to the first send: rendering
\* (which may raise), then send_notification_to_warehouse_admins up to its
\* first await.
ProcessOrder(renderOk, images) ==
    /\ tick.pc = "next"
    /\ IF ~renderOk
       THEN /\ tick' = IF dbUp
                       THEN [tick EXCEPT !.pc = "done_order", !.outcome = "failed"]
                       ELSE IdleTick
            /\ UNCHANGED dispatched
       ELSE /\ dispatched' = [dispatched EXCEPT ![Current] = Inc(@)]
            /\ tick' = IF crm[Current].shipmentStore = NoStore \/ Targets = << >>
                       THEN [tick EXCEPT !.pc = "save", !.images = images, !.log = << >>]
                       ELSE [tick EXCEPT !.pc = "send", !.idx = 1, !.phase = "first",
                                         !.images = images, !.log = << >>]
    /\ UNCHANGED <<processed_orders, dbUp, STATUS_RETURNED, crm, delivered_ever, detected>>
    /\ UNCHANGED <<runs, notMonitorVars>>

\* What a send can end in.
SendOutcomes(phase, images) ==
    IF phase = "retry" THEN {"ok", "failed"}
    ELSE {"ok", "forbidden", "retry_after", "network", "other"}
         \cup (IF phase = "first" /\ images THEN {"bad_request"} ELSE {})

\* A failed send that ends the whole fan-out.
after_send_error_abort(outcome) ==
    IF outcome \in {"forbidden", "network"} THEN "abort" ELSE "next_recipient"

\* except TelegramForbiddenError / TelegramNetworkError / Exception: log, go
\* on with the next recipient.
after_send_error(outcome) == "next_recipient"

\* A failed retry that is retried in its turn.
after_retry_again(outcome) ==
    IF outcome = "failed" THEN "retry" ELSE "next_recipient"

\* The retry after TelegramRetryAfter returned, or raised into "except
\* Exception as retry_error", which logs: on to the next recipient.
after_retry(outcome) == "next_recipient"

\* After recipient idx: the next one, or the end of the fan-out.
NextRecipient(t) ==
    IF t.idx < Len(Targets)
    THEN [t EXCEPT !.pc = "send", !.idx = @ + 1, !.phase = "first"]
    ELSE [t EXCEPT !.pc = "save", !.idx = 0, !.phase = "-"]

\* The awaited bot.send_* returns or raises.
SendCompletes(outcome) ==
    /\ tick.pc = "send"
    /\ outcome \in SendOutcomes(tick.phase, tick.images)
    /\ LET logged == [tick EXCEPT !.log = Append(@, [to |-> tick.idx, phase |-> tick.phase,
                                                      outcome |-> outcome])]
       IN  /\ tick' =
                CASE outcome = "ok" /\ tick.phase \in {"first", "fallback"} ->
                        IF tick.idx < Len(Targets)
                        THEN [logged EXCEPT !.pc = "delay", !.phase = "between"]
                        ELSE NextRecipient(logged)
                  [] outcome = "bad_request" ->
                        [logged EXCEPT !.phase = "fallback"]
                  [] outcome = "retry_after" ->
                        [logged EXCEPT !.pc = "delay", !.phase = "retry_after"]
                  [] outcome \in {"forbidden", "network", "other"} ->
                        IF after_send_error(outcome) = "abort"
                        THEN [logged EXCEPT !.pc = "done_order", !.outcome = "failed"]
                        ELSE NextRecipient(logged)
                  [] OTHER ->
                        IF after_retry(outcome) = "retry"
                        THEN [logged EXCEPT !.pc = "delay", !.phase = "retry_after"]
                        ELSE NextRecipient(logged)
           /\ delivered_ever' = [delivered_ever EXCEPT ![Current] = @ \/ outcome = "ok"]
    /\ UNCHANGED <<processed_orders, dbUp, STATUS_RETURNED, crm, dispatched, detected>>
    /\ UNCHANGED <<runs, notMonitorVars>>

\* The awaited asyncio.sleep returns: the pause between two recipients, or
\* the retry_after wait before the one retry.
DelayEnds ==
    /\ tick.pc = "delay"
    /\ LET slept == [tick EXCEPT !.log = Append(@, [to |-> tick.idx, phase |-> tick.phase,
                                                     outcome |-> "slept"])]
       IN  tick' = IF tick.phase = "between"
                   THEN NextRecipient(slept)
                   ELSE [slept EXCEPT !.pc = "send", !.phase = "retry"]
    /\ UNCHANGED <<processed_orders, dbUp, STATUS_RETURNED, crm, dispatched,
                   delivered_ever, detected>>
    /\ UNCHANGED <<runs, notMonitorVars>>

\* save_processed_order after the fan-out; its return value is not looked at.
SaveOrder ==
    /\ tick.pc = "save"
    /\ LET r == save_processed_order(processed_orders, dbUp, Current,
                    WarehouseCode(crm[Current]), crm[Current].delivery)
       IN  /\ processed_orders' = r.db
           /\ tick' = [tick EXCEPT !.pc = "done_order", !.outcome = "saved", !.save_ret = r.ret]
    /\ UNCHANGED <<dbUp, STATUS_RETURNED, crm, dispatched, delivered_ever, detected>>
    /\ UNCHANGED <<runs, notMonitorVars>>

\* The loop goes on to the next order of new_orders, or the check returns.
NextOrder ==
    /\ tick.pc = "done_order"
    /\ tick' = IF Tail(tick.queue) = << >>
               THEN IdleTick
               ELSE [IdleTick EXCEPT !.pc = "next", !.queue = Tail(tick.queue)]
    /\ UNCHANGED <<processed_orders, dbUp, STATUS_RETURNED, crm, dispatched,
                   delivered_ever, detected>>
    /\ UNCHANGED <<runs, notMonitorVars>>

MonitorIdleInit ==
    /\ STATUS_RETURNED = TARGET_STATUS_CODE
    /\ crm = [o \in Orders |-> [status |-> "other", shipmentStore |-> "20", delivery |-> "courier"]]
    /\ tick = IdleTick
    /\ dispatched = [o \in Orders |-> 0]
    /\ delivered_ever = [o \in Orders |-> FALSE]
    /\ detected = {}
    /\ runs = 0
    /\ pickup_button = [o \in Orders |-> FALSE]

----------------------------------------------------------------------------
(* OrderMonitorService: start(), stop() and monitor_loop. The check is     *)
(* taken by what it does to the loop: it returns, raises, or is suspended  *)
(* at one of its awaits.                                                   *)

MAX_CONSECUTIVE_ERRORS == 5
\* Replaced tasks followed at a time.
MaxOrphans == 1
\* "if cleanup_counter >= 1440"
CLEANUP_EVERY == 1440

\* Where the task is suspended at an await, has not run yet, or is over.
LoopAwaits == {"not_started", "in_check", "pause_errors", "sleep",
               "recover_memory", "recover_error"}
\* The awaits inside the loop's try block.
AwaitsInTry == {"in_check", "pause_errors", "sleep"}
\* Parts of the tick body.
TickParts == {"cache", "check", "cleanup", "log"}

LoopIdleInit ==
    /\ is_running = FALSE
    /\ task = "None"
    /\ loop_pc = "none"
    /\ error_counter = 0
    /\ cleanup_counter = 0
    /\ cancel_requested = FALSE
    /\ stop_called = FALSE
    /\ stop_waiting = FALSE
    /\ orphans = 0
    /\ stop_returned = FALSE
    /\ exit_cause = "none"
    /\ raised_in = "none"

\* start(): nothing when is_running is set; else a task is created and put
\* in self.task. A task that self.task held and that is not over (a stop()
\* cancelled it and still awaits it) lives on beside the new one.
Start ==
    /\ loop_pc \in LoopAwaits \cup {"none", "exited"}
    /\ IF is_running
       THEN UNCHANGED loopVars
       ELSE /\ task = "pending" => orphans < MaxOrphans
            /\ is_running' = TRUE
            /\ task' = "pending"
            /\ loop_pc' = "not_started"
            /\ error_counter' = 0
            /\ cleanup_counter' = 0
            /\ cancel_requested' = FALSE
            /\ stop_called' = FALSE
            /\ stop_waiting' = FALSE
            /\ orphans' = IF task = "pending" THEN orphans + 1 ELSE orphans
            /\ stop_returned' = FALSE
            /\ exit_cause' = "none"
            /\ raised_in' = "none"
    /\ UNCHANGED notLoopVars

\* stop() up to its await: nothing when is_running is clear; else is_running
\* is cleared and the task, if not done, is cancelled and awaited.
Stop ==
    /\ loop_pc \in LoopAwaits \cup {"none", "exited"}
    /\ IF ~is_running
       THEN UNCHANGED loopVars
       ELSE /\ is_running' = FALSE
            /\ cancel_requested' = (task = "pending")
            /\ stop_waiting' = (task = "pending")
            /\ stop_called' = TRUE
            /\ stop_returned' = (task # "pending")
            /\ UNCHANGED <<task, loop_pc, error_counter, cleanup_counter,
                           orphans, exit_cause, raised_in>>
    /\ UNCHANGED notLoopVars

\* "await self.task" is over: stop() returns.
StopReturns ==
    /\ stop_waiting
    /\ task = "done"
    /\ stop_waiting' = FALSE
    /\ stop_returned' = TRUE
    /\ UNCHANGED <<is_running, task, loop_pc, error_counter, cleanup_counter,
                   cancel_requested, stop_called, orphans, exit_cause, raised_in>>
    /\ UNCHANGED notLoopVars

\* A cancelled task that self.task no longer holds resumes: CancelledError
\* ends it, and the stop() that awaited it returns.
OrphanEnds ==
    /\ orphans > 0
    /\ orphans' = orphans - 1
    /\ stop_returned' = TRUE
    /\ UNCHANGED <<is_running, task, loop_pc, error_counter, cleanup_counter,
                   cancel_requested, stop_called, stop_waiting, exit_cause, raised_in>>
    /\ UNCHANGED notLoopVars

\* monitor_loop leaves its while loop, or an exception leaves the coroutine.
Exit(cause) ==
    /\ loop_pc' = "exited"
    /\ task' = "done"
    /\ exit_cause' = cause
    /\ cancel_requested' = FALSE

\* The loop's outer handler for an exception of the given class: which await
\* the loop waits at before it continues; "break" ends the loop.
outer_handler_breaking(kind) ==
    CASE kind = "CancelledError" -> "break"
      [] kind = "KeyboardInterrupt" -> "break"
      [] kind = "MemoryError" -> "recover_memory"
      [] kind = "SystemExit" -> "break"
      [] OTHER -> "break"

outer_handler(kind) ==
    CASE kind = "CancelledError" -> "break"
      [] kind = "KeyboardInterrupt" -> "break"
      [] kind = "MemoryError" -> "recover_memory"
      [] kind = "SystemExit" -> "break"
      [] OTHER -> "recover_error"

\* The task runs for the first time, or wakes from the sleep between ticks:
\* "while self.is_running".
LoopTop ==
    /\ loop_pc \in {"not_started", "sleep", "recover_memory", "recover_error"}
    /\ ~cancel_requested
    \* the event loop runs callbacks in the order they were scheduled: the
    \* wake-up of a cancelled task precedes the first step of a later task
    /\ loop_pc = "not_started" => orphans = 0
    /\ IF is_running
       THEN /\ loop_pc' = "cache"
            /\ raised_in' = "none"
            /\ UNCHANGED <<task, exit_cause, cancel_requested>>
       ELSE /\ Exit("is_running")
            /\ UNCHANGED raised_in
    /\ UNCHANGED <<is_running, error_counter, cleanup_counter, stop_called, stop_waiting, orphans, stop_returned>>
    /\ UNCHANGED notLoopVars

\* should_refresh_cache / refresh_products_cache. outcome: "skip" no refresh
\* is due, "ok", "caught" the refresh raised and the inner handler took it,
\* or an exception class raised outside the inner try.
CacheStep(outcome) ==
    /\ loop_pc = "cache"
    /\ outcome \in {"skip", "ok", "caught", "MemoryError", "Exception"}
    /\ IF outcome \in {"skip", "ok", "caught"}
       THEN /\ loop_pc' = "check"
            /\ raised_in' = IF outcome = "caught" THEN "cache" ELSE raised_in
            /\ UNCHANGED <<task, exit_cause, cancel_requested>>
       ELSE /\ raised_in' = "cache"
            /\ IF outer_handler(outcome) = "break"
               THEN Exit(outcome)
               ELSE /\ loop_pc' = outer_handler(outcome)
                    /\ UNCHANGED <<task, exit_cause, cancel_requested>>
    /\ UNCHANGED <<is_running, error_counter, cleanup_counter, stop_called, stop_waiting, orphans, stop_returned>>
    /\ UNCHANGED notLoopVars

\* await self.check_orders_with_status()
CheckStarts ==
    /\ loop_pc = "check"
    /\ loop_pc' = "in_check"
    /\ UNCHANGED <<is_running, task, error_counter, cleanup_counter,
                   cancel_requested, stop_called, stop_waiting, orphans, stop_returned,
          exit_cause, raised_in>>
    /\ UNCHANGED notLoopVars

\* The check returns (error_counter = 0) or raises an Exception, MemoryError
\* included (error_counter += 1, the long pause at MAX_CONSECUTIVE_ERRORS).
CheckEnds(raises) ==
    /\ loop_pc = "in_check"
    /\ ~cancel_requested
    /\ IF ~raises
       THEN /\ error_counter' = 0
            /\ loop_pc' = "cleanup"
            /\ UNCHANGED raised_in
       ELSE /\ raised_in' = "check"
            /\ IF error_counter + 1 >= MAX_CONSECUTIVE_ERRORS
               THEN /\ loop_pc' = "pause_errors"
                    /\ error_counter' = error_counter + 1
               ELSE /\ loop_pc' = "cleanup"
                    /\ error_counter' = error_counter + 1
    /\ UNCHANGED <<is_running, task, cleanup_counter, cancel_requested,
                   stop_called, stop_waiting, orphans, stop_returned, exit_cause>>
    /\ UNCHANGED notLoopVars

\* The check met an error (the poll failed, say), caught it in its own
\* "except Exception", logged it and returned: to monitor_loop the await
\* returned, so error_counter = 0.
CheckCatchesError ==
    /\ loop_pc = "in_check"
    /\ ~cancel_requested
    /\ error_counter' = 0
    /\ loop_pc' = "cleanup"
    /\ raised_in' = "check_inside"
    /\ UNCHANGED <<is_running, task, cleanup_counter, cancel_requested,
                   stop_called, stop_waiting, orphans, stop_returned, exit_cause>>
    /\ UNCHANGED notLoopVars

\* The long pause is over: error_counter = 0.
PauseEnds ==
    /\ loop_pc = "pause_errors"
    /\ ~cancel_requested
    /\ error_counter' = 0
    /\ loop_pc' = "cleanup"
    /\ UNCHANGED <<is_running, task, cleanup_counter, cancel_requested,
                   stop_called, stop_waiting, orphans, stop_returned, exit_cause, raised_in>>
    /\ UNCHANGED notLoopVars

\* cleanup_counter += 1 and, once it is CLEANUP_EVERY, the retention sweep;
\* the counter is reset only when the sweep did not raise. Past the
\* threshold the counter is not followed further.
CleanupStep(raises) ==
    /\ loop_pc = "cleanup"
    /\ LET c == cleanup_counter + 1 IN
       IF c >= CLEANUP_EVERY
       THEN IF raises
            THEN /\ cleanup_counter' = CLEANUP_EVERY
                 /\ raised_in' = "cleanup"
            ELSE /\ cleanup_counter' = 0
                 /\ UNCHANGED raised_in
       ELSE /\ ~raises
            /\ cleanup_counter' = c
            /\ UNCHANGED raised_in
    /\ loop_pc' = "sleep"
    /\ UNCHANGED <<is_running, task, error_counter, cancel_requested,
                   stop_called, stop_waiting, orphans, stop_returned, exit_cause>>
    /\ UNCHANGED notLoopVars

\* In the handler of an unexpected exception, db.log_error raises and the
\* bare except around it swallows that.
LogErrorFails ==
    /\ loop_pc = "recover_error"
    /\ raised_in # "log"
    /\ raised_in' = "log"
    /\ UNCHANGED <<is_running, task, loop_pc, error_counter, cleanup_counter,
                   cancel_requested, stop_called, stop_waiting, orphans, stop_returned, exit_cause>>
    /\ UNCHANGED notLoopVars

\* The cancelled task resumes: CancelledError is raised at its await (caught
\* by the loop inside its try block, leaving the coroutine elsewhere).
CancelDelivered ==
    /\ loop_pc \in LoopAwaits
    /\ cancel_requested
    /\ IF loop_pc \in AwaitsInTry
       THEN outer_handler("CancelledError") = "break" /\ Exit("CancelledError")
       ELSE Exit("CancelledError")
    /\ UNCHANGED <<is_running, error_counter, cleanup_counter, stop_called, stop_waiting, orphans, stop_returned, raised_in>>
    /\ UNCHANGED notLoopVars

\* SIGINT / SIGTERM while the task's code runs: main.signal_handler calls
\* sys.exit(0), so SystemExit (or KeyboardInterrupt) is raised in the tick body.
SignalRaised(kind) ==
    /\ loop_pc \in {"cache", "check", "in_check", "cleanup"}
    /\ kind \in {"KeyboardInterrupt", "SystemExit"}
    /\ outer_handler(kind) = "break"
    /\ Exit(kind)
    /\ UNCHANGED <<is_running, error_counter, cleanup_counter, stop_called, stop_waiting, orphans, stop_returned, raised_in>>
    /\ UNCHANGED notLoopVars

LoopNext ==
    \/ Start
    \/ Stop
    \/ StopReturns
    \/ OrphanEnds
    \/ LoopTop
    \/ \E outcome \in {"skip", "ok", "caught", "MemoryError", "Exception"} : CacheStep(outcome)
    \/ CheckStarts
    \/ \E raises \in BOOLEAN : CheckEnds(raises)
    \/ CheckCatchesError
    \/ PauseEnds
    \/ \E raises \in BOOLEAN : CleanupStep(raises)
    \/ LogErrorFails
    \/ CancelDelivered
    \/ \E kind \in {"KeyboardInterrupt", "SystemExit"} : SignalRaised(kind)

----------------------------------------------------------------------------
(* RetailCRMService: one request to the backend, under the retry decorator *)
(* of _make_get_request and _make_post_request.                            *)

\* stop=stop_after_attempt(3)
STOP_AFTER_ATTEMPT == 3

\* How one attempt ends: a response that raise_for_status accepts, or an
\* exception. raise_for_status raises requests.HTTPError on a 4xx or 5xx
\* response.
AttemptOutcomes == {"ok", "Timeout", "ConnectionError", "HTTPError"}

\* The classes under requests.RequestException.
RequestExceptions == {"Timeout", "ConnectionError", "HTTPError"}

\* The transport-level failures among them.
TransportFailures == {"Timeout", "ConnectionError"}

\* retry=retry_if_exception_type((requests.RequestException, requests.Timeout))
retry_if_exception_type(outcome) == outcome \in RequestExceptions

IdleRequest == [pc |-> "idle", method |-> "-", history |-> << >>, result |-> "-"]

ReqIdleInit == req = IdleRequest

\* _make_get_request / _make_post_request is called.
MakeRequest(method) ==
    /\ req.pc \in {"idle", "returned", "raised"}
    /\ req' = [IdleRequest EXCEPT !.pc = "attempt", !.method = method]
    /\ UNCHANGED <<ledgerVars, limiterVars, monitorVars, handlerVars, loopVars, houseVars, audit, press, sweep, parsed>>

\* One attempt: requests.get / requests.post and raise_for_status. An
\* exception the retry predicate rejects is raised as it is; one it accepts
\* is retried after a wait, or, at the last attempt, ends in RetryError.
Attempt(outcome) ==
    /\ req.pc = "attempt"
    /\ outcome \in AttemptOutcomes
    /\ LET h == Append(req.history, outcome) IN
       req' = CASE outcome = "ok" ->
                     [req EXCEPT !.pc = "returned", !.history = h, !.result = "response"]
                [] ~retry_if_exception_type(outcome) ->
                     [req EXCEPT !.pc = "raised", !.history = h, !.result = outcome]
                [] Len(h) >= STOP_AFTER_ATTEMPT ->
                     [req EXCEPT !.pc = "raised", !.history = h, !.result = "RetryError"]
                [] OTHER ->
                     [req EXCEPT !.pc = "wait", !.history = h]
    /\ UNCHANGED <<ledgerVars, limiterVars, monitorVars, handlerVars, loopVars, houseVars, audit, press, sweep, parsed>>

\* wait=wait_exponential(...) is over.
WaitEnds ==
    /\ req.pc = "wait"
    /\ req' = [req EXCEPT !.pc = "attempt"]
    /\ UNCHANGED <<ledgerVars, limiterVars, monitorVars, handlerVars, loopVars, houseVars, audit, press, sweep, parsed>>

RequestNext ==
    \/ \E method \in {"GET", "POST"} : MakeRequest(method)
    \/ \E outcome \in AttemptOutcomes : Attempt(outcome)
    \/ WaitEnds

----------------------------------------------------------------------------
(* DatabaseService.log_order_action and _update_admin_stats, for one admin *)
(* on one day.                                                             *)

MaxLogged == 3

\* The action names the handlers log, and 'rejected', which has a counter.
ActionNames == {"confirmed", "rejected", "completed", "discuss_replacement"}
\* The actions admin_stats has a column for.
CountedActions == {"confirmed", "rejected", "completed"}

NoStatsRow == [exists |-> FALSE, confirmed |-> 0, rejected |-> 0, completed |-> 0]

AuditIdleInit ==
    audit = [pc |-> "idle", action |-> "-", rows |-> [a \in ActionNames |-> 0],
             stats |-> NoStatsRow, failed |-> FALSE]

\* Rows of order_actions so far.
Logged == audit.rows["confirmed"] + audit.rows["rejected"] + audit.rows["completed"]
              + audit.rows["discuss_replacement"]

\* _update_admin_stats: the day's row is created with the action counted,
\* or its column is incremented; an action without a column changes no count.
update_admin_stats(stats, action) ==
    IF stats.exists
    THEN IF action \in CountedActions THEN [stats EXCEPT ![action] = @ + 1] ELSE stats
    ELSE IF action \in CountedActions
         THEN [NoStatsRow EXCEPT !.exists = TRUE, ![action] = 1]
         ELSE [NoStatsRow EXCEPT !.exists = TRUE]

\* log_order_action up to its conn.commit(): the INSERT into order_actions,
\* committed on its own connection. ok: the store took the write.
LogInsert(action, ok) ==
    /\ audit.pc = "idle"
    /\ Logged < MaxLogged
    /\ audit' = IF ok
                THEN [audit EXCEPT !.pc = "stats", !.action = action,
                                   !.rows[action] = @ + 1]
                ELSE [audit EXCEPT !.action = action, !.failed = TRUE]
    /\ UNCHANGED <<ledgerVars, limiterVars, monitorVars, handlerVars, loopVars, houseVars, req, press, sweep, parsed>>

\* self._update_admin_stats(admin_id, action) on a second connection. ok: the
\* store took the write; otherwise the exception leaves log_order_action.
UpdateAdminStats(ok) ==
    /\ audit.pc = "stats"
    /\ audit' = IF ok
                THEN [audit EXCEPT !.pc = "idle",
                                   !.stats = update_admin_stats(audit.stats, audit.action)]
                ELSE [audit EXCEPT !.pc = "idle", !.failed = TRUE]
    /\ UNCHANGED <<ledgerVars, limiterVars, monitorVars, handlerVars, loopVars, houseVars, req, press, sweep, parsed>>

AuditNext ==
    \/ \E action \in ActionNames, ok \in BOOLEAN : LogInsert(action, ok)
    \/ \E ok \in BOOLEAN : UpdateAdminStats(ok)

----------------------------------------------------------------------------
(* One button press: AuthMiddleware, then the handler the router picks.    *)
(* The bot's buttons sit on messages the bot sent to a chat, so            *)
(* callback.message is set and safe_send_message answers into the chat.    *)

HandlerNames == {"confirm_order", "order_picked_up_by_courier", "picked_up",
                 "discuss_replacement"}

\* How the handler's work after its first answer ends.
WorkOutcomes == {"not_found", "update_failed", "exception", "success"}

IdlePress == [pc |-> "idle", handler |-> "-", authorised |-> FALSE, limited |-> FALSE,
              valid |-> FALSE, answers |-> 0, path |-> "-", raised_at |-> "-"]

PressIdleInit == press = IdlePress

\* A chat presses a button. authorised: its chat or user id is in
\* allowed_chat_ids; limited: check_rate_limit says so; valid:
\* parse_callback_data returns an id.
Press(h, authorised, limited, valid) ==
    /\ press.pc \in {"idle", "done"}
    /\ press' = [IdlePress EXCEPT !.pc = "gate", !.handler = h, !.authorised = authorised,
                                  !.limited = limited, !.valid = valid]
    /\ UNCHANGED <<ledgerVars, limiterVars, monitorVars, handlerVars, loopVars, houseVars, req, audit, sweep, parsed>>

\* AuthMiddleware.__call__: event.answer(...) and return, or the handler.
AccessGate ==
    /\ press.pc = "gate"
    /\ press' = IF ~press.authorised
                THEN [press EXCEPT !.pc = "done", !.path = "unauthorised", !.answers = @ + 1]
                ELSE [press EXCEPT !.pc = "handler"]
    /\ UNCHANGED <<ledgerVars, limiterVars, monitorVars, handlerVars, loopVars, houseVars, req, audit, sweep, parsed>>

\* The handler skips its first callback.answer.
first_answer_skipped(n) == n

\* await callback.answer("...") at the head of the handler's try block.
first_answer(n) == n + 1

\* The handler up to its work: check_rate_limit_for_user answers and the
\* handler returns; parse_callback_data returns None and the handler answers
\* the format error; otherwise the first answer. raises: that answer call
\* raises, which the handler's except takes.
HandlerEntry(raises) ==
    /\ press.pc = "handler"
    /\ press' =
         CASE press.limited ->
                [press EXCEPT !.pc = "done", !.path = "rate_limited", !.answers = @ + 1]
           [] ~press.limited /\ ~press.valid ->
                [press EXCEPT !.pc = "done", !.path = "malformed", !.answers = @ + 1]
           [] OTHER ->
                IF raises
                THEN [press EXCEPT !.pc = "except", !.answers = first_answer(@),
                                   !.raised_at = "first_answer"]
                ELSE [press EXCEPT !.pc = "work", !.answers = first_answer(@)]
    /\ UNCHANGED <<ledgerVars, limiterVars, monitorVars, handlerVars, loopVars, houseVars, req, audit, sweep, parsed>>

\* The rest of the try block: order not found and status update failed send
\* a message into the chat; success answers once more, except in
\* handle_order_picked_up_by_courier, which changes no status.
HandlerWork(outcome) ==
    /\ press.pc = "work"
    /\ outcome \in WorkOutcomes
    /\ outcome = "update_failed" => press.handler # "order_picked_up_by_courier"
    /\ press' =
         CASE outcome = "exception" -> [press EXCEPT !.pc = "except", !.raised_at = "work"]
           [] outcome = "success" /\ press.handler # "order_picked_up_by_courier" ->
                [press EXCEPT !.pc = "done", !.path = outcome, !.answers = @ + 1]
           [] OTHER -> [press EXCEPT !.pc = "done", !.path = outcome]
    /\ UNCHANGED <<ledgerVars, limiterVars, monitorVars, handlerVars, loopVars, houseVars, req, audit, sweep, parsed>>

\* except Exception: safe_send_message into the chat;
\* handle_discuss_replacement calls callback.answer instead.
HandlerExcept ==
    /\ press.pc = "except"
    /\ press' = [press EXCEPT !.pc = "done", !.path = "exception",
                              !.answers = IF press.handler = "discuss_replacement"
                                          THEN @ + 1 ELSE @]
    /\ UNCHANGED <<ledgerVars, limiterVars, monitorVars, handlerVars, loopVars, houseVars, req, audit, sweep, parsed>>

PressNext ==
    \/ \E h \in HandlerNames, authorised \in BOOLEAN, limited \in BOOLEAN, valid \in BOOLEAN :
          Press(h, authorised, limited, valid)
    \/ AccessGate
    \/ \E raises \in BOOLEAN : HandlerEntry(raises)
    \/ \E outcome \in WorkOutcomes : HandlerWork(outcome)
    \/ HandlerExcept

----------------------------------------------------------------------------
(* DatabaseService.remove_old_processed_orders against the timestamps the  *)
(* store writes. Time is counted in whole units (hours, say); notified_at  *)
(* is written by SQLite's CURRENT_TIMESTAMP, which is UTC without a        *)
(* fraction, the cutoff is Python's datetime.now(), the host's local       *)
(* time, with its microseconds. Both reach the comparison as text.         *)

MaxClock == 4
MaxHorizon == 2

\* The host's local time minus UTC, in the same units.
UtcOffsets == {-1, 0, 1}

NoSweep == [done |-> FALSE, days |-> 0, now |-> 0, frac |-> FALSE, before |-> {}]

SweepIdleInit ==
    sweep = [now |-> 0, offset |-> 0, rows |-> {}, last |-> NoSweep]

\* The host's timezone is whatever the deployment sets.
SweepInit ==
    \E off \in UtcOffsets : sweep = [now |-> 0, offset |-> off, rows |-> {}, last |-> NoSweep]

\* CURRENT_TIMESTAMP: UTC, "YYYY-MM-DD HH:MM:SS".
CURRENT_TIMESTAMP(now) == now

\* datetime.now() - timedelta(days=days): local time; frac: its microseconds
\* are not zero, so the text carries ".ffffff".
cutoff_date(now, offset, frac, days) == [sec |-> (now + offset) - days, frac |-> frac]

\* notified_at < ? on text: "...HH:MM:SS" sorts before "...HH:MM:SS.ffffff".
text_less(stamp, cutoff) ==
    stamp < cutoff.sec \/ (stamp = cutoff.sec /\ cutoff.frac)

\* save_processed_order writes notified_at = CURRENT_TIMESTAMP.
SaveAtNow ==
    /\ sweep' = [sweep EXCEPT !.rows = @ \cup {CURRENT_TIMESTAMP(sweep.now)}]
    /\ CURRENT_TIMESTAMP(sweep.now) \notin sweep.rows
    /\ UNCHANGED <<ledgerVars, limiterVars, monitorVars, handlerVars, loopVars, houseVars, req, audit, press, parsed>>

ClockAdvances ==
    /\ sweep.now < MaxClock
    /\ sweep' = [sweep EXCEPT !.now = @ + 1]
    /\ UNCHANGED <<ledgerVars, limiterVars, monitorVars, handlerVars, loopVars, houseVars, req, audit, press, parsed>>

\* remove_old_processed_orders(days)
RemoveOld(days, frac) ==
    /\ sweep.rows # {}
    /\ LET cutoff == cutoff_date(sweep.now, sweep.offset, frac, days) IN
       sweep' = [sweep EXCEPT
                    !.rows = {r \in sweep.rows : ~text_less(r, cutoff)},
                    !.last = [done |-> TRUE, days |-> days, now |-> sweep.now,
                              frac |-> frac, before |-> sweep.rows]]
    /\ UNCHANGED <<ledgerVars, limiterVars, monitorVars, handlerVars, loopVars, houseVars, req, audit, press, parsed>>

SweepNext ==
    \/ SaveAtNow
    \/ ClockAdvances
    \/ \E days \in 1..MaxHorizon, frac \in BOOLEAN : RemoveOld(days, frac)

----------------------------------------------------------------------------
(* Text, as the parsers see it: a sequence of characters.                  *)

Blank == " "
DigitValue == [c \in {"0", "1"} |-> IF c = "0" THEN 0 ELSE 1]
DigitChars == DOMAIN DigitValue

\* str.startswith
startswith(s, prefix) ==
    Len(s) >= Len(prefix) /\ SubSeq(s, 1, Len(prefix)) = prefix

\* str.split(sep) for a one-character separator
RECURSIVE split(_, _)
split(s, sep) ==
    IF \A i \in DOMAIN s : s[i] # sep
    THEN <<s>>
    ELSE LET i == CHOOSE k \in DOMAIN s : s[k] = sep /\ \A j \in 1..(k - 1) : s[j] # sep
         IN  <<SubSeq(s, 1, i - 1)>> \o split(SubSeq(s, i + 1, Len(s)), sep)

\* str.strip
RECURSIVE strip(_)
strip(s) ==
    IF s = << >> THEN s
    ELSE IF Head(s) = Blank THEN strip(Tail(s))
    ELSE IF s[Len(s)] = Blank THEN strip(SubSeq(s, 1, Len(s) - 1))
    ELSE s

\* str.lstrip('-')
RECURSIVE lstrip_minus(_)
lstrip_minus(s) ==
    IF s # << >> /\ Head(s) = "-" THEN lstrip_minus(Tail(s)) ELSE s

\* str.isdigit
isdigit(s) == s # << >> /\ \A i \in DOMAIN s : s[i] \in DigitChars

\* The number a string of digits writes.
RECURSIVE decimal(_)
decimal(s) ==
    IF s = << >> THEN 0 ELSE 10 * decimal(SubSeq(s, 1, Len(s) - 1)) + DigitValue[s[Len(s)]]

\* int(text): an optional sign and digits; anything else is a ValueError.
int(s) ==
    LET signed == s # << >> /\ Head(s) \in {"+", "-"}
        body == IF signed THEN Tail(s) ELSE s
    IN  IF isdigit(body)
        THEN [error |-> FALSE, value |-> IF signed /\ Head(s) = "-"
                                        THEN 0 - decimal(body) ELSE decimal(body)]
        ELSE [error |-> TRUE, value |-> 0]

----------------------------------------------------------------------------
(* handlers/order_callback_handler.parse_callback_data                     *)

MaxData == 4

\* The characters of a payload: "c" stands for the expected action's name,
\* "x" for another action's.
DataChars == {"c", "x", ":", "0", "1", "+", "-", Blank}
ExpectedAction == <<"c">>

RECURSIVE SeqsUpTo(_, _)
SeqsUpTo(S, n) ==
    IF n = 0 THEN {<< >>}
    ELSE LET shorter == SeqsUpTo(S, n - 1)
         IN  shorter \cup {Append(q, c) : q \in {r \in shorter : Len(r) = n - 1}, c \in S}

None == [none |-> TRUE, id |-> 0]
Some(id) == [none |-> FALSE, id |-> id]

\* "if order_id <= 0: return None", letting zero through.
id_is_positive_or_zero(order_id) == order_id >= 0

\* if order_id <= 0: return None
id_is_positive(order_id) == order_id > 0

parse_callback_data(callback_data, action) ==
    IF callback_data = << >> THEN None
    ELSE IF ~startswith(callback_data, action \o <<":">>) THEN None
    ELSE LET parts == split(callback_data, ":") IN
         IF Len(parts) # 2 THEN None
         ELSE LET id_str == strip(parts[2]) IN
              IF id_str = << >> THEN None
              ELSE LET n == int(id_str) IN
                   IF n.error THEN None      \* except ValueError
                   ELSE IF ~id_is_positive(n.value) THEN None
                   ELSE Some(n.value)

ParsedIdleInit == parsed = [fn |-> "none"]

\* A handler parses the payload of a press; on None it answers the format
\* error and returns.
ParseCallback(data) ==
    /\ parsed.fn = "none"
    /\ LET r == parse_callback_data(data, ExpectedAction) IN
       parsed' = [fn |-> "parse_callback_data", input |-> data, result |-> r,
                  format_error |-> r.none]
    /\ UNCHANGED <<ledgerVars, limiterVars, monitorVars, handlerVars, loopVars, houseVars,
                   req, audit, press, sweep>>

\* The payloads tried: every text up to MaxData characters, once.
CallbackInputs == IF parsed.fn = "none" THEN SeqsUpTo(DataChars, MaxData) ELSE {}

CallbackNext == \E data \in CallbackInputs : ParseCallback(data)

----------------------------------------------------------------------------
(* config/settings.Settings.get_admin_full_config                          *)

MaxConfig == 7

\* The characters of ADMIN_WAREHOUSES: a digit, the minus of a group chat's
\* id, the two separators, and a letter.
ConfigChars == {"1", "-", ":", ",", "w"}

\* [pair.strip() for pair in s.split(",") if pair.strip()]
StrippedPairs(s) ==
    LET raw == split(s, ",")
        stripped == [i \in DOMAIN raw |-> strip(raw[i])]
    IN  SelectSeq(stripped, LAMBDA pair : pair # << >>)

\* x.lstrip('-').isdigit()
is_valid_id(x) == isdigit(lstrip_minus(x))

Rejected == [error |-> TRUE, config |-> << >>]

\* The body of "for pair in pairs" for one pair: the entry it adds, or the
\* ValueError it raises.
parse_pair(pair) ==
    LET parts == split(pair, ":") IN
    IF Len(parts) \notin {2, 3} THEN [error |-> TRUE]
    ELSE LET user_id == strip(parts[1])
             warehouse_code == strip(parts[2])
             chat_id == strip(IF Len(parts) = 2 THEN parts[1] ELSE parts[3])
         IN  IF user_id = << >> \/ warehouse_code = << >> \/ chat_id = << >>
             THEN [error |-> TRUE]
             ELSE IF ~is_valid_id(user_id) \/ ~is_valid_id(chat_id)
             THEN [error |-> TRUE]
             ELSE [error |-> FALSE, user_id |-> user_id,
                   info |-> [warehouse |-> warehouse_code, chat_id |-> chat_id]]

\* admin_config after the pairs from k on, starting from config.
RECURSIVE add_pairs(_, _, _)
add_pairs(pairs, k, config) ==
    IF k > Len(pairs) THEN [error |-> FALSE, config |-> config]
    ELSE LET e == parse_pair(pairs[k]) IN
         IF e.error THEN Rejected
         ELSE add_pairs(pairs, k + 1,
                        [u \in DOMAIN config \cup {e.user_id} |->
                            IF u = e.user_id THEN e.info ELSE config[u]])

get_admin_full_config(admin_warehouses_str) ==
    IF admin_warehouses_str = << >> THEN Rejected
    ELSE IF strip(admin_warehouses_str) = << >> THEN Rejected
    ELSE LET pairs == StrippedPairs(strip(admin_warehouses_str)) IN
         IF pairs = << >> THEN Rejected
         ELSE add_pairs(pairs, 1, << >>)

\* Settings.get_admin_full_config() at start-up, ADMIN_WAREHOUSES being text.
LoadAdminConfig(text) ==
    /\ parsed.fn = "none"
    /\ parsed' = [fn |-> "get_admin_full_config", input |-> text,
                  result |-> get_admin_full_config(text)]
    /\ UNCHANGED <<ledgerVars, limiterVars, monitorVars, handlerVars, loopVars, houseVars,
                   req, audit, press, sweep>>

\* The values of ADMIN_WAREHOUSES tried: every text up to MaxConfig characters.
ConfigInputs == IF parsed.fn = "none" THEN SeqsUpTo(ConfigChars, MaxConfig) ELSE {}

ConfigNext == \E text \in ConfigInputs : LoadAdminConfig(text)

----------------------------------------------------------------------------
(* check_orders_with_status followed candidate by candidate, with the two  *)
(* tables it could write besides the ledger: error_log, monitoring_checks. *)

MaxCandidates == 3
MaxChecks == 2

IdleBatch == [pc |-> "idle", found |-> 0, todo |-> 0, attempted |-> 0, ended |-> "-",
              checks |-> 0, error_log |-> 0, monitoring_checks |-> 0]

BatchIdleInit == batch = IdleBatch

\* The check up to "for order in new_orders": n orders are new.
BatchStarts(n) ==
    /\ batch.pc = "idle"
    /\ batch.checks < MaxChecks
    /\ batch' = [batch EXCEPT !.pc = IF n = 0 THEN "returning" ELSE "orders",
                              !.found = n, !.todo = n, !.attempted = 0, !.ended = "returned"]
    /\ UNCHANGED <<ledgerVars, limiterVars, monitorVars, handlerVars, loopVars, unitVars, tables, cache, lateVars>>

\* One pass of the for loop. processed: rendering, image lookup, fan-out
\* and save_processed_order went through; otherwise one of them raised and
\* the except block calls db.log_error, which writes the row (logged) or
\* raises in its turn: that exception leaves the for loop.
CandidateDone(processed, logged) ==
    /\ batch.pc = "orders"
    /\ batch.todo > 0
    /\ batch' =
         IF processed \/ logged
         THEN [batch EXCEPT !.attempted = @ + 1, !.todo = @ - 1,
                            !.error_log = IF processed THEN @ ELSE @ + 1,
                            !.pc = IF batch.todo = 1 THEN "returning" ELSE "orders"]
         ELSE [batch EXCEPT !.attempted = @ + 1, !.pc = "outer_except"]
    /\ UNCHANGED <<ledgerVars, limiterVars, monitorVars, handlerVars, loopVars, unitVars, tables, cache, lateVars>>

\* The check's outer "except Exception": db.log_error once more; when that
\* raises too, the exception leaves check_orders_with_status.
OuterExcept(logged) ==
    /\ batch.pc = "outer_except"
    /\ batch' = [batch EXCEPT !.pc = "returning",
                              !.error_log = IF logged THEN @ + 1 ELSE @,
                              !.ended = IF logged THEN "returned" ELSE "raised"]
    /\ UNCHANGED <<ledgerVars, limiterVars, monitorVars, handlerVars, loopVars, unitVars, tables, cache, lateVars>>

\* The check is over and monitor_loop goes on to its sleep: nothing on the
\* way calls db.log_monitoring_check.
BatchEnds ==
    /\ batch.pc = "returning"
    /\ batch' = [batch EXCEPT !.pc = "idle", !.checks = @ + 1]
    /\ UNCHANGED <<ledgerVars, limiterVars, monitorVars, handlerVars, loopVars, unitVars, tables, cache, lateVars>>

BatchNext ==
    \/ \E n \in 0..MaxCandidates : BatchStarts(n)
    \/ \E processed \in BOOLEAN, logged \in BOOLEAN : CandidateDone(processed, logged)
    \/ \E logged \in BOOLEAN : OuterExcept(logged)
    \/ BatchEnds

----------------------------------------------------------------------------
(* The retention block of monitor_loop over the three tables. A row is     *)
(* "recent" while inside the horizon of its table and "old" once past it.  *)

TableNames == {"processed_orders", "monitoring_checks", "error_log"}
\* Tables some code of the program inserts into: save_processed_order and
\* log_error have callers, log_monitoring_check has none.
WrittenTables == {"processed_orders", "error_log"}

TablesIdleInit == tables = [t \in TableNames |-> {}]

\* save_processed_order / log_error insert a row.
RowInserted(t) ==
    /\ t \in WrittenTables
    /\ "recent" \notin tables[t]
    /\ tables' = [tables EXCEPT ![t] = @ \cup {"recent"}]
    /\ UNCHANGED <<ledgerVars, limiterVars, monitorVars, handlerVars, loopVars, unitVars, batch, cache, lateVars>>

\* Time passes: the rows of a table get past its horizon.
RowsAge(t) ==
    /\ "recent" \in tables[t]
    /\ tables' = [tables EXCEPT ![t] = (@ \ {"recent"}) \cup {"old"}]
    /\ UNCHANGED <<ledgerVars, limiterVars, monitorVars, handlerVars, loopVars, unitVars, batch, cache, lateVars>>

\* The tables the retention block sweeps:
\* "deleted = self.db.remove_old_processed_orders(days=30)" and no other call.
SweptTables == {"processed_orders"}

\* "cleanup_counter += 1; if cleanup_counter >= 1440: try: ... except".
\* raises: the DELETE raised; the counter is reset after the sweep only.
RetentionTick(raises) ==
    /\ LET c == cleanup_counter + 1 IN
       IF c >= CLEANUP_EVERY
       THEN IF raises
            THEN /\ cleanup_counter' = CLEANUP_EVERY
                 /\ UNCHANGED tables
            ELSE /\ cleanup_counter' = 0
                 /\ tables' = [t \in TableNames |->
                                 IF t \in SweptTables THEN tables[t] \ {"old"} ELSE tables[t]]
       ELSE /\ ~raises
            /\ cleanup_counter' = c
            /\ UNCHANGED tables
    /\ UNCHANGED <<is_running, task, loop_pc, error_counter, cancel_requested,
                   stop_called, stop_waiting, orphans, stop_returned, exit_cause, raised_in>>
    /\ UNCHANGED <<ledgerVars, limiterVars, monitorVars, handlerVars, unitVars, batch, cache, lateVars>>

RetentionNext ==
    \/ \E t \in TableNames : RowInserted(t)
    \/ \E t \in TableNames : RowsAge(t)
    \/ \E raises \in BOOLEAN : RetentionTick(raises)

----------------------------------------------------------------------------
(* The cache refresh gate at the head of a tick. Dates are 1, 2, ..; the   *)
(* hours of a day are 0 .. LastHour; last_cache_refresh_date = 0 is None.  *)

MaxDate == 3
LastHour == 2

RefreshOutcomes == {"loaded", "empty", "raised"}

\* The service is constructed in hour 0 of date 1 (or later that day: the
\* clock may pass any number of hours before the first tick).
CacheIdleInit ==
    cache = [date |-> 1, hour |-> 0, last_cache_refresh_date |-> 0,
             _products_cache |-> "None", pc |-> "sleep", outcome |-> "-",
             loaded_on |-> 0]

\* now.time() >= CACHE_REFRESH_TIME holds at any time of the day, 00:00
\* being the first.
should_refresh_cache_any_hour(c) ==
    c.last_cache_refresh_date # c.date
should_refresh_cache(c) ==
    c.last_cache_refresh_date # c.date /\ c.hour = 0

\* The sleep between two ticks ends: "while self.is_running: try:".
TickStarts ==
    /\ cache.pc = "sleep"
    /\ cache' = [cache EXCEPT !.pc = "gate"]
    /\ UNCHANGED <<ledgerVars, limiterVars, monitorVars, handlerVars, loopVars, unitVars, batch, tables, lateVars>>

\* "if self.should_refresh_cache(): try: self.refresh_products_cache()
\* except Exception". loaded: get_all_products paged through the catalogue;
\* empty: it met an error, logged it and returned {}; raised: an exception
\* inside refresh_products_cache, which logs it and calls db.log_error, and
\* when that raises too (~logged) the handler in monitor_loop takes it.
CacheGate(outcome, logged) ==
    /\ cache.pc = "gate"
    /\ IF should_refresh_cache(cache)
       THEN /\ outcome \in RefreshOutcomes
            /\ cache' = [cache EXCEPT
                  !.pc = "check",
                  !.outcome = outcome,
                  !._products_cache = CASE outcome = "loaded" -> "loaded"
                                        [] outcome = "empty" -> "empty"
                                        [] OTHER -> "None",
                  !.last_cache_refresh_date = IF outcome = "raised" THEN @ ELSE cache.date,
                  !.loaded_on = IF outcome = "loaded" THEN cache.date ELSE @]
            /\ tables' = IF outcome = "raised" /\ logged
                         THEN [tables EXCEPT !["error_log"] = @ \cup {"recent"}]
                         ELSE tables
       ELSE /\ outcome = "skip"
            /\ logged
            /\ cache' = [cache EXCEPT !.pc = "check", !.outcome = "skip"]
            /\ UNCHANGED tables
    /\ UNCHANGED <<ledgerVars, limiterVars, monitorVars, handlerVars, loopVars, unitVars, batch, lateVars>>

\* "await self.check_orders_with_status()" and the rest of the tick.
OrderCheck ==
    /\ cache.pc = "check"
    /\ cache' = [cache EXCEPT !.pc = "sleep"]
    /\ UNCHANGED <<ledgerVars, limiterVars, monitorVars, handlerVars, loopVars, unitVars, batch, tables, lateVars>>

\* The wall clock reaches the next hour while the loop sleeps.
HourPasses ==
    /\ cache.pc = "sleep"
    /\ IF cache.hour < LastHour
       THEN cache' = [cache EXCEPT !.hour = @ + 1]
       ELSE /\ cache.date < MaxDate
            /\ cache' = [cache EXCEPT !.hour = 0, !.date = @ + 1]
    /\ UNCHANGED <<ledgerVars, limiterVars, monitorVars, handlerVars, loopVars, unitVars, batch, tables, lateVars>>

CacheNext ==
    \/ TickStarts
    \/ \E outcome \in RefreshOutcomes \cup {"skip"}, logged \in BOOLEAN : CacheGate(outcome, logged)
    \/ OrderCheck
    \/ HourPasses

----------------------------------------------------------------------------
(* A button handler from its call to its return, with the limiter's key of *)
(* the pressing user for each action. The handlers' limits (5 and 10 a     *)
(* minute) are scaled down, the window is EntryWindow seconds.             *)

MaxPresses == 4
EntryWindow == 2

\* limit=5 for confirm_order and discuss_replacement, limit=10 for the two
\* picked-up handlers: here 1 and 2.
handler_limit(h) ==
    IF h \in {"confirm_order", "discuss_replacement"} THEN 1 ELSE 2

\* What a handler's work can cause.
Effects == {"backend_fetch", "status_update", "ledger_read", "ledger_write", "audit_entry"}

IdleEntry == [pc |-> "idle", handler |-> "-", path |-> "-", effects |-> {},
              is_limited |-> FALSE, consumed |-> 0, presses |-> 0,
              keys |-> [h \in HandlerNames |-> NoKey]]

EntryIdleInit == handling = IdleEntry

\* A handler that goes on whatever the limiter said.
check_rate_limit_for_user_lenient(res) == FALSE

\* check_rate_limit_for_user: "if is_limited: ... return True" / "return False"
check_rate_limit_for_user(res) == res.is_limited

\* The router calls handler h. First check_rate_limit_for_user, which counts
\* the press on the user's key; then parse_callback_data (valid: it returns
\* an id). fail: the store call of the limiter that raises.
HandlerCalled(h, valid, fail) ==
    /\ handling.pc \in {"idle", "done"}
    /\ handling.presses < MaxPresses
    /\ FailPointReached(handling.keys[h], handler_limit(h), fail)
    /\ LET r == check_rate_limit("client", handling.keys[h], handler_limit(h), EntryWindow, fail)
           called == [handling EXCEPT !.handler = h, !.effects = {},
                                   !.presses = @ + 1,
                                   !.keys[h] = r.entry,
                                   !.is_limited = r.res.is_limited,
                                   !.consumed = r.entry.value - handling.keys[h].value]
       IN  handling' =
             IF check_rate_limit_for_user(r.res)
             THEN [called EXCEPT !.pc = "done", !.path = "rate_limited"]
             ELSE IF ~valid
                  THEN [called EXCEPT !.pc = "done", !.path = "malformed"]
                  ELSE [called EXCEPT !.pc = "work", !.path = "-"]
    /\ UNCHANGED <<ledgerVars, limiterVars, monitorVars, handlerVars, loopVars, unitVars, batch, tables, cache, buttons>>

\* The try block of the handler: get_order_by_id; then, the order found,
\* what the handler does with it. posted: update_order_status succeeded.
HandlerBody(found, posted) ==
    /\ handling.pc = "work"
    /\ LET h == handling.handler
           changes == h # "order_picked_up_by_courier"
           success == found /\ (posted \/ ~changes)
       IN  handling' = [handling EXCEPT
              !.pc = "done",
              !.path = IF ~found THEN "not_found"
                       ELSE IF success THEN "success" ELSE "update_failed",
              !.effects = {"backend_fetch"}
                  \cup (IF found /\ h = "confirm_order" THEN {"ledger_read"} ELSE {})
                  \cup (IF found /\ changes THEN {"status_update"} ELSE {})
                  \cup (IF success /\ h = "discuss_replacement" THEN {"ledger_write"} ELSE {})
                  \cup (IF success THEN {"audit_entry"} ELSE {})]
    /\ UNCHANGED <<ledgerVars, limiterVars, monitorVars, handlerVars, loopVars, unitVars, batch, tables, cache, buttons>>

\* One second passes for the keys of the user.
EntrySecondPasses ==
    /\ handling.pc \in {"idle", "done"}
    /\ \E h \in DOMAIN handling.keys : handling.keys[h].ttl >= 1
    /\ handling' = [handling EXCEPT !.keys = [h \in DOMAIN handling.keys |->
                    IF handling.keys[h].ttl = 1 THEN NoKey
                    ELSE IF handling.keys[h].ttl > 1
                         THEN [handling.keys[h] EXCEPT !.ttl = @ - 1]
                         ELSE handling.keys[h]]]
    /\ UNCHANGED <<ledgerVars, limiterVars, monitorVars, handlerVars, loopVars, unitVars, batch, tables, cache, buttons>>

EntryNext ==
    \/ \E h \in HandlerNames, valid \in BOOLEAN, fail \in FailPoints :
          HandlerCalled(h, valid, fail)
    \/ \E found \in BOOLEAN, posted \in BOOLEAN : HandlerBody(found, posted)
    \/ EntrySecondPasses

\* No notification stands in any chat, table order_actions is empty.
Chats == 1..NumAdmins

IdleButtons == [kb |-> [o \in Orders |-> [c \in Chats |-> "none"]], order_actions |-> << >>,
                last |-> [action |-> "-", mark_ret |-> TRUE, answer |-> "-"]]

ButtonsIdleInit == buttons = IdleButtons

LateIdleInit == EntryIdleInit /\ ButtonsIdleInit

HouseIdleInit == BatchIdleInit /\ TablesIdleInit /\ CacheIdleInit /\ LateIdleInit

UnitIdleInit ==
    ReqIdleInit /\ AuditIdleInit /\ PressIdleInit /\ SweepIdleInit /\ ParsedIdleInit /\ HouseIdleInit

----------------------------------------------------------------------------
(* Direct use of the DatabaseService methods, in any order *)

NoCall == [op |-> "none", order_id |-> 0, ret |-> FALSE, up |-> TRUE, pre |-> << >>]

Called(op, o, ret) ==
    [op |-> op, order_id |-> o, ret |-> ret, up |-> dbUp, pre |-> processed_orders]

TripStages == {"none", "in_no_product", "returned", "deleted", "renotified"}

LedgerInit ==
    /\ processed_orders = << >>
    /\ dbUp = TRUE
    /\ lastCall = NoCall
    /\ trip = [o \in Orders |-> "none"]

DbSave(o, wh, dt) ==
    LET r == save_processed_order(processed_orders, dbUp, o, wh, dt) IN
    /\ processed_orders' = r.db
    /\ lastCall' = Called("save_processed_order", o, r.ret)
    /\ trip' = [trip EXCEPT ![o] = IF ~r.ret THEN @
                                   ELSE IF @ = "deleted" THEN "renotified" ELSE "none"]
    /\ UNCHANGED dbUp
    /\ UNCHANGED notLedgerVars

DbMarkInNoProduct(o) ==
    LET r == mark_order_in_no_product(processed_orders, dbUp, o) IN
    /\ processed_orders' = r.db
    /\ lastCall' = Called("mark_order_in_no_product", o, r.ret)
    /\ trip' = [trip EXCEPT ![o] = IF r.ret /\ o \in DOMAIN processed_orders
                                   THEN "in_no_product" ELSE @]
    /\ UNCHANGED dbUp
    /\ UNCHANGED notLedgerVars

DbMarkReturned(o) ==
    LET r == mark_order_returned_from_no_product(processed_orders, dbUp, o) IN
    /\ processed_orders' = r.db
    /\ lastCall' = Called("mark_order_returned_from_no_product", o, r.ret)
    /\ trip' = [trip EXCEPT ![o] = IF r.ret /\ @ = "in_no_product" THEN "returned" ELSE @]
    /\ UNCHANGED dbUp
    /\ UNCHANGED notLedgerVars

DbReset(o) ==
    LET r == reset_order_for_renotification(processed_orders, dbUp, o) IN
    /\ processed_orders' = r.db
    /\ lastCall' = Called("reset_order_for_renotification", o, r.ret)
    /\ trip' = [trip EXCEPT ![o] = IF ~r.ret THEN @
                                   ELSE IF @ = "returned" THEN "deleted" ELSE "none"]
    /\ UNCHANGED dbUp
    /\ UNCHANGED notLedgerVars

DbRemoveOld ==
    /\ dbUp
    /\ processed_orders' = remove_old_processed_orders(processed_orders)
    /\ lastCall' = Called("remove_old_processed_orders", 0, TRUE)
    /\ trip' = [o \in Orders |->
                  IF o \in DOMAIN processed_orders /\ o \notin DOMAIN processed_orders'
                  THEN "none" ELSE trip[o]]
    /\ UNCHANGED dbUp
    /\ UNCHANGED notLedgerVars

\* Time passes: every row present is now older than the retention horizon.
HorizonPasses ==
    /\ \E o \in DOMAIN processed_orders : processed_orders[o].notified_at = "fresh"
    /\ processed_orders' = [x \in DOMAIN processed_orders |->
                              [processed_orders[x] EXCEPT !.notified_at = "stale"]]
    /\ lastCall' = NoCall
    /\ UNCHANGED <<dbUp, trip>>
    /\ UNCHANGED notLedgerVars

StoreGoesDown ==
    /\ dbUp
    /\ dbUp' = FALSE
    /\ lastCall' = NoCall
    /\ UNCHANGED <<processed_orders, trip>>
    /\ UNCHANGED notLedgerVars

StoreComesUp ==
    /\ ~dbUp
    /\ dbUp' = TRUE
    /\ lastCall' = NoCall
    /\ UNCHANGED <<processed_orders, trip>>
    /\ UNCHANGED notLedgerVars

LedgerNext ==
    \/ \E o \in Orders, wh \in Warehouses \cup {"N/A"}, dt \in DeliveryTypes : DbSave(o, wh, dt)
    \/ \E o \in Orders : DbMarkInNoProduct(o)
    \/ \E o \in Orders : DbMarkReturned(o)
    \/ \E o \in Orders : DbReset(o)
    \/ DbRemoveOld
    \/ HorizonPasses
    \/ StoreGoesDown
    \/ StoreComesUp

InitLedger == LedgerInit /\ LimiterIdleInit /\ MonitorIdleInit /\ LoopIdleInit /\ UnitIdleInit

SpecLedger == InitLedger /\ [][LedgerNext]_vars

\* The row of o in a table, as a set: empty when there is none.
RowOf(po, o) == IF o \in DOMAIN po THEN {po[o]} ELSE {}

\* C4: save_processed_order for an order_id that already has a row leaves
\* was_in_no_product and returned_from_no_product as they were before the call.
C4_SaveKeepsFlags ==
    (lastCall.op = "save_processed_order" /\ lastCall.ret
        /\ lastCall.order_id \in DOMAIN lastCall.pre)
    => LET o == lastCall.order_id IN
       /\ processed_orders[o].was_in_no_product = lastCall.pre[o].was_in_no_product
       /\ processed_orders[o].returned_from_no_product = lastCall.pre[o].returned_from_no_product

\* C5: reset_order_for_renotification deletes the row and returns true exactly
\* when (the store answering) the row exists with was_in_no_product set; in
\* every other case it returns false and the table is as before the call; and
\* after a completed round trip (flagged, marked returned, deleted, saved
\* again) a further reset of that order would return false.
C5_ResetOnlyAfterNoProduct ==
    /\ lastCall.op = "reset_order_for_renotification"
       => LET o == lastCall.order_id IN
          /\ lastCall.ret <=> (lastCall.up /\ \E r \in RowOf(lastCall.pre, o) : r.was_in_no_product)
          /\ lastCall.ret => processed_orders = [x \in DOMAIN lastCall.pre \ {o} |-> lastCall.pre[x]]
          /\ ~lastCall.ret => processed_orders = lastCall.pre
    /\ \A o \in Orders :
          trip[o] = "renotified" => ~reset_order_for_renotification(processed_orders, TRUE, o).ret

\* A reset refused for a row that never was in no-product, and a reset refused
\* right after a completed round trip.
C5_Witness ==
    /\ lastCall.op = "reset_order_for_renotification"
    /\ ~lastCall.ret /\ lastCall.up
    /\ trip[lastCall.order_id] = "renotified"
    /\ lastCall.order_id \in DOMAIN lastCall.pre

----------------------------------------------------------------------------
(* The monitor running alone: the backend's orders stay as they are, the   *)
(* store answers, nobody presses a button. The ledger starts in any state  *)
(* earlier checks and button presses can have left.                        *)

TickStatuses == {TARGET_STATUS_CODE, "returned", STATUS_DISCUSSION}
Stores == Warehouses \cup {NoStore}

\* The flags a row can carry: never flagged, flagged, flagged and returned.
RowFlags == {<<FALSE, FALSE>>, <<TRUE, FALSE>>, <<TRUE, TRUE>>}

\* The row of order o with flags f.
RowWith(o, f) ==
    [NewRow(WarehouseCode(crm[o]), crm[o].delivery) EXCEPT
        !.was_in_no_product = f[1], !.returned_from_no_product = f[2]]

TicksInit ==
    /\ STATUS_RETURNED \in {TARGET_STATUS_CODE, "returned"}
    /\ crm \in [Orders -> [status : TickStatuses, shipmentStore : Stores,
                           delivery : {"courier"}]]
    \* a flag is set by a button press, so on a notification that was delivered
    /\ \E D \in SUBSET Orders : \E f \in [D -> RowFlags] :
          /\ \A o \in D : f[o][1] => get_admins_for_warehouse(crm[o].shipmentStore) # << >>
          /\ processed_orders = [o \in D |-> RowWith(o, f[o])]
          /\ delivered_ever = [o \in Orders |-> o \in D /\ f[o][1]]
    /\ dbUp = TRUE
    /\ lastCall = NoCall
    /\ trip = [o \in Orders |-> "none"]
    /\ tick = IdleTick
    /\ dispatched = [o \in Orders |-> 0]
    /\ detected = {}
    /\ runs = 0
    /\ pickup_button = [o \in Orders |-> FALSE]

\* One more check starts.
TickCheck(pollOk, fetched) ==
    /\ runs < MaxRuns
    /\ check_orders_with_status(pollOk, fetched)
    /\ runs' = runs + 1

TicksNext ==
    \/ \E pollOk \in BOOLEAN, fetched \in SUBSET Orders : TickCheck(pollOk, fetched)
    \/ \E renderOk \in BOOLEAN, images \in BOOLEAN : ProcessOrder(renderOk, images)
    \/ \E outcome \in {"ok", "failed", "forbidden", "retry_after", "network", "other",
                       "bad_request"} : SendCompletes(outcome)
    \/ DelayEnds
    \/ SaveOrder
    \/ NextOrder

InitTicks == TicksInit /\ LimiterIdleInit /\ LoopIdleInit /\ UnitIdleInit
SpecTicks == InitTicks /\ [][TicksNext]_vars

\* C1: an order at the target status is dispatched at most once over
\* consecutive runs of check_orders_with_status with nothing else touching
\* the ledger: once dispatched, the later passes find it processed.
C1_SecondRunSendsNothing ==
    \A o \in Orders : crm[o].status = TARGET_STATUS_CODE => dispatched[o] <= 1

\* C3: an order the monitor has found returned from no-product is re-notified
\* exactly once while its status stays: never a second time, and when its new
\* row stands it has been dispatched once.
C3_ReturnedRenotifiedOnce ==
    \A o \in detected :
        /\ dispatched[o] <= 1
        /\ is_order_processed(processed_orders, o) => dispatched[o] = 1

\* C35: within one tick each order id is dispatched at most once, also when
\* the order stands both in the status poll's result and in the list of
\* orders returned from no-product: no order has more dispatches than there
\* were ticks.
C35_OneDispatchPerTick ==
    \A o \in Orders : dispatched[o] <= runs

\* The fan-out of the current order is over.
FanOutOver == tick.pc \in {"save", "done_order"}
\* Log entries of sends that failed because the chat is unreachable or the
\* network is down.
Unreachable == {i \in DOMAIN tick.log : tick.log[i].outcome \in {"forbidden", "network"}}

\* C8: when a send to one recipient fails as unreachable or with a network
\* error, that recipient gets no further attempt, every recipient of the
\* warehouse still gets its own attempt, and the order is recorded as
\* processed once the fan-out is over.
C8_FailureSkipsOneRecipient ==
    (FanOutOver /\ Unreachable # {}) =>
        /\ \A r \in 1..Len(Targets) :
              \E i \in DOMAIN tick.log : tick.log[i].to = r /\ tick.log[i].phase = "first"
        /\ \A i \in Unreachable :
              \A j \in DOMAIN tick.log : j > i => tick.log[j].to # tick.log[i].to
        /\ tick.pc = "done_order" =>
              /\ tick.outcome = "saved"
              /\ is_order_processed(processed_orders, Current)

C8_Witness ==
    /\ tick.pc = "done_order"
    /\ tick.outcome = "saved"
    /\ is_order_processed(processed_orders, Current)
    /\ \E i \in Unreachable : tick.log[i].to = 1
    /\ \E j \in DOMAIN tick.log : tick.log[j].to = 2 /\ tick.log[j].outcome = "ok"

\* C9: a processed-order row is written only for an order whose notification
\* reached at least one recipient.
C9_RecordOnlyAfterDelivery ==
    (tick.pc = "done_order" /\ tick.outcome = "saved" /\ tick.save_ret) =>
        \E i \in DOMAIN tick.log : tick.log[i].outcome = "ok"

\* The sends of the log, and what a send carried: the photo or album when
\* the order has images and the send is the first one to its recipient, the
\* text alone in the fallback and in the retry (both are bot.send_message).
Sends == {i \in DOMAIN tick.log : tick.log[i].outcome # "slept"}
Carried(i) == IF tick.images /\ tick.log[i].phase = "first" THEN "photo" ELSE "text"
RateLimited == {i \in Sends : tick.log[i].outcome = "retry_after"}

\* C26: a send rejected with a rate limit is followed by the wait of
\* retry_after seconds and then by one retry to the same recipient; after
\* that retry, however it ended, the log goes on with the next recipient,
\* and the fan-out does not end before the retry was made.
C26_OneRetryAfterRateLimit ==
    \A i \in RateLimited :
        LET l == tick.log
            r == l[i].to
        IN  /\ (i + 1) \in DOMAIN l =>
                  l[i + 1] = [to |-> r, phase |-> "retry_after", outcome |-> "slept"]
            /\ (i + 2) \in DOMAIN l =>
                  /\ l[i + 2].to = r
                  /\ l[i + 2].phase = "retry"
                  /\ l[i + 2].outcome \in {"ok", "failed"}
            /\ (i + 3) \in DOMAIN l => l[i + 3].to = r + 1
            /\ FanOutOver => (i + 2) \in DOMAIN l
            /\ (FanOutOver /\ r < Len(Targets)) => (i + 3) \in DOMAIN l

\* The first recipient was rate limited twice, on the send and on the retry,
\* and the second recipient got the notification.
C26_Witness ==
    /\ FanOutOver
    /\ \E i \in RateLimited :
          /\ tick.log[i].to = 1
          /\ tick.log[i + 2].outcome = "failed"
          /\ tick.log[i + 3] = [to |-> 2, phase |-> "first", outcome |-> "ok"]

\* C27: when the order has images, a send of the text alone is made to a
\* recipient only after the photo or album send to that recipient ended in
\* a bad request.
C27_TextOnlyAfterBadRequest ==
    tick.images =>
        \A i \in Sends : Carried(i) = "text" =>
            \E j \in Sends : /\ j < i
                             /\ tick.log[j].to = tick.log[i].to
                             /\ Carried(j) = "photo"
                             /\ tick.log[j].outcome = "bad_request"

\* C28: in the log of a fan-out, the first send to a recipient other than
\* the first comes right after the pause between recipients, and no pause
\* between recipients follows the last one.
C28_DelayBetweenRecipients ==
    \A i \in DOMAIN tick.log :
        LET l == tick.log IN
        /\ (l[i].phase = "first" /\ l[i].to > 1) =>
              l[i - 1] = [to |-> l[i].to - 1, phase |-> "between", outcome |-> "slept"]
        /\ (l[i].phase = "between") => l[i].to < Len(Targets)

\* The admins the notification of the current order is meant for.
AdminsOfWarehouse ==
    {i \in DOMAIN admin_config : admin_config[i].warehouse = crm[Current].shipmentStore}

\* C29: every send of a fan-out goes to the chat of an admin whose warehouse
\* is the order's shipmentStore; once the fan-out is over each such admin's
\* chat had its send; with no such admin, or no shipmentStore, nothing is
\* sent and the processing of the order goes on.
C29_OnlyWarehouseAdmins ==
    (tick.queue # << >> /\ tick.pc # "next") =>
        /\ \A i \in Sends :
              /\ tick.log[i].to \in DOMAIN Targets
              /\ Targets[tick.log[i].to].warehouse = crm[Current].shipmentStore
              /\ crm[Current].shipmentStore # NoStore
        /\ (FanOutOver /\ tick.outcome # "failed") =>
              \A a \in AdminsOfWarehouse :
                  \E i \in Sends : Targets[tick.log[i].to].chat_id = admin_config[a].chat_id
        /\ (AdminsOfWarehouse = {} \/ crm[Current].shipmentStore = NoStore) =>
              (Sends = {} /\ tick.pc \in {"save", "done_order"})

\* Both admins of warehouse "20" were sent the notification of an order of
\* that warehouse, the admin of warehouse "30" was not.
C29_Witness ==
    /\ tick.pc = "save"
    /\ crm[Current].shipmentStore = "20"
    /\ {tick.log[i].to : i \in Sends} = 1..NumAdmins

\* An order of a warehouse without admins went through its fan-out with
\* nothing sent.
C29_NoAdminWitness ==
    /\ tick.pc = "save"
    /\ crm[Current].shipmentStore = "25"
    /\ tick.log = << >>

----------------------------------------------------------------------------
(* The whole program: the monitor's checks, the button handlers, the       *)
(* retention sweep, and around them the backend's operators, the store's   *)
(* availability and the passing of time.                                   *)

\* The monitor starts a check.
MonitorCheck(pollOk, fetched) ==
    /\ check_orders_with_status(pollOk, fetched)
    /\ UNCHANGED runs

\* monitor_loop's daily clean-up, between two checks.
Cleanup ==
    /\ tick.pc = "idle"
    /\ dbUp
    /\ processed_orders' = remove_old_processed_orders(processed_orders)
    /\ UNCHANGED <<dbUp, lastCall, trip, limiterVars, loopVars, monitorVars, handlerVars, unitVars, houseVars>>

\* retailcrm_service.update_order_status: the order is fetched, then edited.
update_order_status(c, o, new_status, found, posted) ==
    IF found /\ posted THEN [c EXCEPT ![o].status = new_status] ELSE c

\* db.get_order_delivery_type: the row's delivery type, None without a row
\* or without the store.
get_order_delivery_type(po, up, o) ==
    IF up /\ o \in DOMAIN po THEN po[o].delivery_type ELSE "None"

\* handle_confirm_order after the rate limit let the press through (the
\* limiter's own state is followed in SpecLimiter): limited is what
\* check_rate_limit_for_user answered, found / posted what the backend did.
handle_confirm_order(o, limited, found, posted) ==
    /\ Suspended
    /\ delivered_ever[o]
    /\ LET delivery_type == get_order_delivery_type(processed_orders, dbUp, o)
           new_status == IF delivery_type = "self-delivery"
                         THEN STATUS_SELF_PICKUP_READY ELSE STATUS_CONFIRMED
           go == ~limited /\ found
       IN  /\ crm' = IF go THEN update_order_status(crm, o, new_status, found, posted) ELSE crm
           \* log_order_action raises without the store: the new keyboard is not shown
           /\ pickup_button' = [pickup_button EXCEPT ![o] =
                                  @ \/ (go /\ posted /\ dbUp /\ delivery_type = "self-delivery")]
    /\ UNCHANGED <<ledgerVars, limiterVars, loopVars, STATUS_RETURNED, tick, dispatched,
                   delivered_ever, detected, runs, unitVars, houseVars>>

handle_picked_up(o, limited, found, posted) ==
    /\ Suspended
    /\ pickup_button[o]
    /\ crm' = IF ~limited /\ found
              THEN update_order_status(crm, o, STATUS_COMPLETED, found, posted) ELSE crm
    /\ UNCHANGED <<ledgerVars, limiterVars, loopVars, STATUS_RETURNED, tick, dispatched,
                   delivered_ever, detected, runs, handlerVars, unitVars, houseVars>>

handle_discuss_replacement(o, limited, found, posted) ==
    /\ Suspended
    /\ delivered_ever[o]
    /\ LET go == ~limited /\ found IN
       /\ crm' = IF go THEN update_order_status(crm, o, STATUS_DISCUSSION, found, posted) ELSE crm
       /\ processed_orders' = IF go /\ posted
                              THEN mark_order_in_no_product(processed_orders, dbUp, o).db
                              ELSE processed_orders
    /\ UNCHANGED <<dbUp, lastCall, trip, limiterVars, loopVars, STATUS_RETURNED, tick, dispatched,
                   delivered_ever, detected, runs, handlerVars, unitVars, houseVars>>

\* Statuses an operator of the backend moves an order to.
OperatorStatuses == {TARGET_STATUS_CODE, "returned", "other"}

\* An operator of the backend changes an order's status.
OperatorSetsStatus(o, st) ==
    /\ Suspended
    /\ crm[o].status # st
    /\ crm' = [crm EXCEPT ![o].status = st]
    /\ UNCHANGED <<ledgerVars, limiterVars, loopVars, STATUS_RETURNED, tick, dispatched,
                   delivered_ever, detected, runs, handlerVars, unitVars, houseVars>>

ProgramInit ==
    /\ STATUS_RETURNED \in {TARGET_STATUS_CODE, "returned"}
    /\ crm \in [Orders -> [status : {"other"}, shipmentStore : Stores,
                           delivery : DeliveryTypes]]
    /\ tick = IdleTick
    /\ dispatched = [o \in Orders |-> 0]
    /\ delivered_ever = [o \in Orders |-> FALSE]
    /\ detected = {}
    /\ runs = 0
    /\ pickup_button = [o \in Orders |-> FALSE]

Next ==
    \/ \E pollOk \in BOOLEAN, fetched \in SUBSET Orders : MonitorCheck(pollOk, fetched)
    \/ \E renderOk \in BOOLEAN, images \in BOOLEAN : ProcessOrder(renderOk, images)
    \/ \E outcome \in {"ok", "failed", "forbidden", "retry_after", "network", "other",
                       "bad_request"} : SendCompletes(outcome)
    \/ DelayEnds
    \/ SaveOrder
    \/ NextOrder
    \/ Cleanup
    \/ \E o \in Orders, limited, found, posted \in BOOLEAN :
          \/ handle_confirm_order(o, limited, found, posted)
          \/ handle_picked_up(o, limited, found, posted)
          \/ handle_discuss_replacement(o, limited, found, posted)
    \/ \E o \in Orders, st \in OperatorStatuses : OperatorSetsStatus(o, st)
    \/ HorizonPasses
    \/ StoreGoesDown
    \/ StoreComesUp

Init == ProgramInit /\ LedgerInit /\ LimiterIdleInit /\ LoopIdleInit /\ UnitIdleInit
Spec == Init /\ [][Next]_vars

\* C2: an order that has its processed-order row is not notified again: a
\* dispatch happens only for an order whose row is absent (never written, or
\* deleted for re-notification).
C2_NoDispatchWhileRowStands ==
    tick.pc \in {"send", "delay", "save"} => ~is_order_processed(processed_orders, Current)

----------------------------------------------------------------------------
(* The buttons under an order's notification in the chats of the admins of *)
(* its warehouse, and the handlers they call. The store answers.           *)

\* handle_confirm_order pressed in chat c: no look at old_status before
\* update_order_status; log_order_action and the new keyboard on success.
ConfirmPressed(o, c, found, posted) ==
    /\ buttons.kb[o][c] = "order"
    /\ Len(buttons.order_actions) < MaxLogged
    /\ LET delivery_type == get_order_delivery_type(processed_orders, dbUp, o)
           new_status == IF delivery_type = "self-delivery"
                         THEN STATUS_SELF_PICKUP_READY ELSE STATUS_CONFIRMED
           success == found /\ posted
       IN  /\ crm' = IF found THEN update_order_status(crm, o, new_status, found, posted) ELSE crm
           /\ buttons' = IF success
                         THEN [buttons EXCEPT
                                 !.kb[o][c] = IF delivery_type = "self-delivery"
                                              THEN "pickup" ELSE "none",
                                 !.order_actions = Append(@, [order_id |-> o, action |-> "confirmed",
                                                              old_status |-> crm[o].status,
                                                              new_status |-> new_status])]
                         ELSE buttons
    /\ UNCHANGED <<ledgerVars, limiterVars, loopVars, STATUS_RETURNED, tick, dispatched,
                   delivered_ever, detected, runs, handlerVars, unitVars, batch, tables, cache, handling>>

\* handle_discuss_replacement pressed in chat c. markOk / logOk: whether the
\* store answers mark_order_in_no_product / log_order_action. The return of
\* mark_order_in_no_product is dropped; log_order_action raises to the
\* handler's except, which answers "error" before the keyboard is edited.
DiscussPressed(o, c, found, posted, markOk, logOk) ==
    /\ buttons.kb[o][c] = "order"
    /\ Len(buttons.order_actions) < MaxLogged
    /\ LET success == found /\ posted
           marked == mark_order_in_no_product(processed_orders, dbUp /\ markOk, o)
           answer == IF ~found THEN "not_found"
                     ELSE IF ~posted THEN "not_updated"
                     ELSE IF ~logOk THEN "error" ELSE "changed"
       IN
       /\ crm' = IF found THEN update_order_status(crm, o, STATUS_DISCUSSION, found, posted) ELSE crm
       /\ processed_orders' = IF success THEN marked.db ELSE processed_orders
       /\ buttons' = [buttons EXCEPT
                        !.kb[o][c] = IF success /\ logOk THEN "none" ELSE @,
                        !.order_actions =
                            IF success /\ logOk
                            THEN Append(@, [order_id |-> o, action |-> "discuss_replacement",
                                            old_status |-> crm[o].status,
                                            new_status |-> STATUS_DISCUSSION])
                            ELSE @,
                        !.last = [action |-> "discuss_replacement",
                                  mark_ret |-> IF success THEN marked.ret ELSE TRUE,
                                  answer |-> answer]]
    /\ UNCHANGED <<dbUp, lastCall, trip, limiterVars, loopVars, STATUS_RETURNED, tick, dispatched,
                   delivered_ever, detected, runs, handlerVars, unitVars, batch, tables, cache, handling>>

\* handle_picked_up pressed in chat c, on the keyboard handle_confirm_order
\* put there for a self-delivery order.
PickedUpPressed(o, c, found, posted) ==
    /\ buttons.kb[o][c] = "pickup"
    /\ Len(buttons.order_actions) < MaxLogged
    /\ LET success == found /\ posted IN
       /\ crm' = IF found THEN update_order_status(crm, o, STATUS_COMPLETED, found, posted) ELSE crm
       /\ buttons' = IF success
                     THEN [buttons EXCEPT
                             !.kb[o][c] = "none",
                             !.order_actions = Append(@, [order_id |-> o, action |-> "completed",
                                                          old_status |-> crm[o].status,
                                                          new_status |-> STATUS_COMPLETED])]
                     ELSE buttons
    /\ UNCHANGED <<ledgerVars, limiterVars, loopVars, STATUS_RETURNED, tick, dispatched,
                   delivered_ever, detected, runs, handlerVars, unitVars, batch, tables, cache, handling>>

ButtonsNext ==
    \/ \E o \in Orders, c \in Chats, found \in BOOLEAN, posted \in BOOLEAN :
          \/ ConfirmPressed(o, c, found, posted)
          \/ \E markOk \in BOOLEAN, logOk \in BOOLEAN :
                DiscussPressed(o, c, found, posted, markOk, logOk)
          \/ PickedUpPressed(o, c, found, posted)
    \/ \E o \in Orders, st \in OperatorStatuses : OperatorSetsStatus(o, st)

\* An order of warehouse "20" stands at the target status, its notification
\* with the confirm and discuss buttons in the chat of each admin of the
\* warehouse and its row in the ledger: the state after the tick that found it.
ButtonsInit ==
    /\ STATUS_RETURNED \in {TARGET_STATUS_CODE, "returned"}
    /\ \E d \in DeliveryTypes :
          /\ crm = [o \in Orders |-> [status |-> TARGET_STATUS_CODE, shipmentStore |-> "20",
                                      delivery |-> d]]
          /\ processed_orders = [o \in Orders |-> NewRow("20", d)]
    /\ dbUp = TRUE
    /\ lastCall = NoCall
    /\ trip = [o \in Orders |-> "none"]
    /\ tick = IdleTick
    /\ dispatched = [o \in Orders |-> 1]
    /\ delivered_ever = [o \in Orders |-> TRUE]
    /\ detected = {}
    /\ runs = 0
    /\ pickup_button = [o \in Orders |-> FALSE]
    /\ buttons = [IdleButtons EXCEPT !.kb = [o \in Orders |-> [c \in Chats |-> "order"]]]

InitButtons ==
    /\ ButtonsInit
    /\ LimiterIdleInit /\ LoopIdleInit
    /\ ReqIdleInit /\ AuditIdleInit /\ PressIdleInit /\ SweepIdleInit /\ ParsedIdleInit
    /\ BatchIdleInit /\ TablesIdleInit /\ CacheIdleInit /\ EntryIdleInit
SpecButtons == InitButtons /\ [][ButtonsNext]_vars

\* The status an action of table order_actions starts from in the order
\* state machine.
EdgeFrom(action) ==
    IF action = "completed" THEN {STATUS_CONFIRMED, STATUS_SELF_PICKUP_READY}
    ELSE {TARGET_STATUS_CODE}

\* C33: every status change a button press made, each with its row in
\* order_actions, started from the status its edge of the order state machine
\* starts from: confirm and discuss-replacement from the target status,
\* picked-up from a confirmed status.
C33_PressesFollowEdges ==
    \A i \in DOMAIN buttons.order_actions :
        buttons.order_actions[i].old_status \in EdgeFrom(buttons.order_actions[i].action)

\* C34: a discuss-replacement press whose mark_order_in_no_product failed
\* after the status update succeeded answers the user with an error, so the
\* missing was_in_no_product flag is not lost in silence.
C34_FailedMarkIsReported ==
    (buttons.last.action = "discuss_replacement" /\ ~buttons.last.mark_ret)
        => buttons.last.answer = "error"

----------------------------------------------------------------------------
(* A tick and the discuss-replacement button side by side: the handler     *)
(* runs while the monitor task is suspended in a send or in a sleep. The   *)
(* store answers every call.                                               *)

\* A new order at the target status: no row, nothing sent yet.
RaceInit ==
    /\ STATUS_RETURNED \in {TARGET_STATUS_CODE, "returned"}
    /\ crm = [o \in Orders |-> [status |-> TARGET_STATUS_CODE, shipmentStore |-> "20",
                                delivery |-> "courier"]]
    /\ processed_orders = << >>
    /\ delivered_ever = [o \in Orders |-> FALSE]
    /\ dbUp = TRUE
    /\ lastCall = NoCall
    /\ trip = [o \in Orders |-> "none"]
    /\ tick = IdleTick
    /\ dispatched = [o \in Orders |-> 0]
    /\ detected = {}
    /\ runs = 0
    /\ pickup_button = [o \in Orders |-> FALSE]

RaceNext ==
    \/ \E pollOk \in BOOLEAN, fetched \in SUBSET Orders : TickCheck(pollOk, fetched)
    \/ \E renderOk \in BOOLEAN, images \in BOOLEAN : ProcessOrder(renderOk, images)
    \/ \E outcome \in {"ok", "failed", "forbidden", "retry_after", "network", "other",
                       "bad_request"} : SendCompletes(outcome)
    \/ DelayEnds
    \/ SaveOrder
    \/ NextOrder
    \/ \E o \in Orders, limited, found, posted \in BOOLEAN :
          handle_discuss_replacement(o, limited, found, posted)
    \/ \E o \in Orders, st \in OperatorStatuses : OperatorSetsStatus(o, st)

InitRace == RaceInit /\ LimiterIdleInit /\ LoopIdleInit /\ UnitIdleInit
SpecRace == InitRace /\ [][RaceNext]_vars

\* C36: once a tick and a discuss-replacement press for the same order have
\* both completed and the press's status update succeeded, the order's ledger
\* row has was_in_no_product = true, whatever the interleaving. (Here only a
\* successful press puts an order into the discussion status.)
C36_PressDuringTickIsKept ==
    \A o \in Orders :
        (/\ tick.pc = "idle"
         /\ crm[o].status = STATUS_DISCUSSION
         /\ is_order_processed(processed_orders, o))
            => processed_orders[o].was_in_no_product

----------------------------------------------------------------------------
(* An order that came back from the discussion status, under the ticks of  *)
(* a monitor that never stops. The store can fail one call and answer the  *)
(* next (a locked database); the backend answers again and again.          *)

\* The order stands at STATUS_RETURNED, its row flagged by the press that
\* sent it to discussion.
ReturnInit ==
    /\ STATUS_RETURNED \in {TARGET_STATUS_CODE, "returned"}
    /\ crm = [o \in Orders |-> [status |-> STATUS_RETURNED, shipmentStore |-> "20",
                                delivery |-> "courier"]]
    /\ processed_orders = [o \in Orders |-> RowWith(o, <<TRUE, FALSE>>)]
    /\ delivered_ever = [o \in Orders |-> TRUE]
    /\ dbUp = TRUE
    /\ lastCall = NoCall
    /\ trip = [o \in Orders |-> "none"]
    /\ tick = IdleTick
    /\ dispatched = [o \in Orders |-> 0]
    /\ detected = {}
    /\ runs = 0
    /\ pickup_button = [o \in Orders |-> FALSE]

\* check_orders_with_status up to its first order, the store failing call by
\* call inside _check_orders_returned_from_no_product.
ReturnCheck(pollOk, fetched, markOk, resetOk) ==
    /\ tick.pc = "idle"
    /\ LET orders == get_orders_by_status(TARGET_STATUS_CODE, pollOk)
           det == scan_processed_orders(processed_orders,
                      get_all_processed_orders(processed_orders, dbUp), fetched,
                      markOk, resetOk)
           all == all_orders(orders, det.returned)
       IN  /\ processed_orders' = det.db
           /\ detected' = detected \cup {det.returned[i] : i \in DOMAIN det.returned}
           /\ IF all # << >> /\ new_orders(det.db, all) # << >>
              THEN tick' = [IdleTick EXCEPT !.pc = "next", !.queue = new_orders(det.db, all)]
              ELSE tick' = IdleTick
    /\ UNCHANGED <<dbUp, STATUS_RETURNED, crm, dispatched, delivered_ever, runs>>
    /\ UNCHANGED notMonitorVars

ReturnNext ==
    \/ \E pollOk \in BOOLEAN, fetched \in SUBSET Orders, markOk \in BOOLEAN, resetOk \in BOOLEAN :
          ReturnCheck(pollOk, fetched, markOk, resetOk)
    \/ \E renderOk \in BOOLEAN, images \in BOOLEAN : ProcessOrder(renderOk, images)
    \/ \E outcome \in {"ok", "failed", "forbidden", "retry_after", "network", "other",
                       "bad_request"} : SendCompletes(outcome)
    \/ DelayEnds
    \/ SaveOrder
    \/ NextOrder

\* monitor_loop starts a check every interval and each await of a check
\* returns; the backend, the store and the rendering work again and again.
ReturnFairness ==
    /\ SF_vars(ReturnCheck(TRUE, Orders, TRUE, TRUE))
    /\ SF_vars(\E images \in BOOLEAN : ProcessOrder(TRUE, images))
    /\ WF_vars(\E renderOk \in BOOLEAN, images \in BOOLEAN : ProcessOrder(renderOk, images))
    /\ WF_vars(\E outcome \in {"ok", "failed", "forbidden", "retry_after", "network", "other",
                                "bad_request"} : SendCompletes(outcome))
    /\ WF_vars(DelayEnds)
    /\ WF_vars(SaveOrder)
    /\ WF_vars(NextOrder)

InitReturn == ReturnInit /\ LimiterIdleInit /\ LoopIdleInit /\ UnitIdleInit
SpecReturn == InitReturn /\ [][ReturnNext]_vars /\ ReturnFairness

\* C37: an order the monitor has found returned from no-product, and marked
\* so, is eventually dispatched again, also when one of the two ledger calls
\* of the detection fails or the dispatch of that tick raises.
C37_ReturnedIsRenotified ==
    \A o \in Orders : (o \in detected) ~> (dispatched[o] >= 1)

----------------------------------------------------------------------------
(* The ticks for an order of a warehouse whose admins share one chat *)

ChatsInit ==
    /\ STATUS_RETURNED \in {TARGET_STATUS_CODE, "returned"}
    /\ crm = [o \in Orders |-> [status |-> TARGET_STATUS_CODE, shipmentStore |-> GroupStore,
                                delivery |-> "courier"]]
    /\ processed_orders = << >>
    /\ delivered_ever = [o \in Orders |-> FALSE]
    /\ dbUp = TRUE
    /\ lastCall = NoCall
    /\ trip = [o \in Orders |-> "none"]
    /\ tick = IdleTick
    /\ dispatched = [o \in Orders |-> 0]
    /\ detected = {}
    /\ runs = 0
    /\ pickup_button = [o \in Orders |-> FALSE]

InitChats == ChatsInit /\ LimiterIdleInit /\ LoopIdleInit /\ UnitIdleInit
SpecChats == InitChats /\ [][TicksNext]_vars

\* The sends of the current dispatch that delivered the notification.
Delivered == {i \in DOMAIN tick.log : tick.log[i].outcome = "ok"}

\* C39: in one dispatch of one order no destination chat receives the
\* notification twice, also when several admins of the warehouse are
\* configured with the same chat_id.
C39_OncePerChat ==
    \A i \in Delivered : \A j \in Delivered :
        i # j => Targets[tick.log[i].to].chat_id # Targets[tick.log[j].to].chat_id

----------------------------------------------------------------------------
(* The monitor loop on its own *)

InitLoop == LoopIdleInit /\ LedgerInit /\ LimiterIdleInit /\ MonitorIdleInit /\ UnitIdleInit
SpecLoop == InitLoop /\ [][LoopNext]_vars

C21_FailuresCounted ==
    /\ [](error_counter <= MAX_CONSECUTIVE_ERRORS)
    /\ [][/\ (loop_pc = "in_check" /\ loop_pc' \in {"cleanup", "pause_errors"}) =>
                 error_counter' = IF raised_in' \in {"check", "check_inside"}
                                  THEN error_counter + 1 ELSE 0
          /\ (loop_pc = "pause_errors" /\ loop_pc' = "cleanup") => error_counter' = 0]_vars

\* C40: whenever the loop task is over, by whatever path it ended, is_running
\* is false, so that the next start() creates a new loop task.
C40_ExitedMeansNotRunning ==
    (loop_pc = "exited" /\ task = "done") => ~is_running

\* The monitor as its callers see it.
Lifecycle ==
    IF is_running THEN "running" ELSE IF stop_waiting THEN "stopping" ELSE "stopped"

\* C11: a step that leaves is_running set creates no task; a step that leaves
\* it clear cancels nothing; and the lifecycle moves only stopped -> running
\* -> stopping -> stopped (a stop() that finds the task over goes from running
\* to stopped at once).
C11_LifecycleOrder ==
    [][/\ (is_running /\ is_running') =>
             ~(loop_pc' = "not_started" /\ loop_pc # "not_started")
       /\ (~is_running /\ ~is_running') => (cancel_requested' => cancel_requested)
       /\ Lifecycle' # Lifecycle =>
             <<Lifecycle, Lifecycle'>> \in {<<"stopped", "running">>,
                                            <<"running", "stopping">>,
                                            <<"running", "stopped">>,
                                            <<"stopping", "stopped">>}]_vars

\* Loop tasks that are not over.
LiveTasks == (IF task = "pending" THEN 1 ELSE 0) + orphans
\* The task of self.task is inside a tick body.
InTickBody == loop_pc \in {"cache", "check", "in_check", "pause_errors", "cleanup"}

\* C18: at most one loop task is alive, and a tick body runs only when no
\* other loop task is alive, whatever the order of start() and stop() calls.
C18_OneLoopTask ==
    /\ LiveTasks <= 1
    /\ InTickBody => orphans = 0

\* C20 (after the return): once stop() has returned, is_running is false, the
\* loop task is done and the loop is in no tick.
C20_StoppedAfterStop ==
    stop_returned =>
        /\ ~is_running
        /\ task # "pending"
        /\ loop_pc \in {"none", "exited"}

----------------------------------------------------------------------------
(* The monitor loop running its checks: monitor_loop awaits                *)
(* check_orders_with_status, which awaits the sends and the pauses between *)
(* them; start() and stop() run while the task is suspended at an await.   *)

\* The loop task is suspended at an await.
AtAwait ==
    IF loop_pc = "in_check" THEN tick.pc \in {"send", "delay"}
    ELSE loop_pc \in LoopAwaits \cup {"none", "exited"}

\* start(), called while no stop() is awaiting its task (that interleaving
\* is followed with the loop on its own).
RunStart == AtAwait /\ ~stop_waiting /\ Start

RunStop == AtAwait /\ Stop

\* await self.check_orders_with_status(): the check runs up to its first
\* await, or to its end when it sends nothing.
RunCheck(pollOk, fetched) ==
    /\ loop_pc = "check"
    /\ runs < MaxRuns
    /\ check_orders_body(pollOk, fetched)
    /\ runs' = runs + 1
    /\ loop_pc' = "in_check"
    /\ UNCHANGED <<is_running, task, error_counter, cleanup_counter, cancel_requested,
                   stop_called, stop_waiting, orphans, stop_returned, exit_cause, raised_in>>
    /\ UNCHANGED <<lastCall, trip, limiterVars, handlerVars, unitVars, houseVars>>

\* task.cancel() cancels the future the task waits on: the send or the pause
\* can no longer complete.
RunSendCompletes(outcome) == ~cancel_requested /\ SendCompletes(outcome)

RunDelayEnds == ~cancel_requested /\ DelayEnds

\* check_orders_with_status has returned to monitor_loop.
RunCheckEnds == tick.pc = "idle" /\ CheckEnds(FALSE)

\* The cancelled task resumes inside the check: CancelledError is raised at
\* the awaited send or pause. No handler of
\* send_notification_to_warehouse_admins or check_orders_with_status catches
\* it ("except Exception" does not), so the rest of the check is skipped and
\* monitor_loop's handler breaks.
CancelInCheck ==
    /\ loop_pc = "in_check"
    /\ cancel_requested
    /\ tick.pc \in {"send", "delay"}
    /\ tick' = [IdleTick EXCEPT !.outcome = "cancelled"]
    /\ outer_handler("CancelledError") = "break"
    /\ Exit("CancelledError")
    /\ UNCHANGED <<is_running, error_counter, cleanup_counter, stop_called, stop_waiting,
                   orphans, stop_returned, raised_in>>
    /\ UNCHANGED <<processed_orders, dbUp, STATUS_RETURNED, crm, dispatched,
                   delivered_ever, detected, runs>>
    /\ UNCHANGED <<lastCall, trip, limiterVars, handlerVars, unitVars, houseVars>>

\* Cancellation away from the check: before the first tick or at the sleep.
CancelAtSleep == loop_pc # "in_check" /\ CancelDelivered

RunNext ==
    \/ RunStart
    \/ RunStop
    \/ StopReturns
    \/ LoopTop
    \/ \E outcome \in {"skip", "ok"} : CacheStep(outcome)
    \/ \E pollOk \in BOOLEAN, fetched \in SUBSET Orders : RunCheck(pollOk, fetched)
    \/ \E renderOk \in BOOLEAN, images \in BOOLEAN : ProcessOrder(renderOk, images)
    \/ \E outcome \in {"ok", "failed", "forbidden", "retry_after", "network", "other",
                       "bad_request"} : RunSendCompletes(outcome)
    \/ RunDelayEnds
    \/ SaveOrder
    \/ NextOrder
    \/ RunCheckEnds
    \/ CleanupStep(FALSE)
    \/ CancelInCheck
    \/ CancelAtSleep

InitRun == TicksInit /\ LimiterIdleInit /\ LoopIdleInit /\ UnitIdleInit
SpecRun == InitRun /\ [][RunNext]_vars

\* C19: when the loop has exited after a stop(), every order whose fan-out
\* was begun has its ledger row: a send in flight at the stop() ran to its
\* end and the order was recorded before the loop exited.
C19_StopSparesSend ==
    (loop_pc = "exited" /\ stop_called /\ dbUp) =>
        \A o \in Orders : dispatched[o] > 0 => o \in DOMAIN processed_orders

----------------------------------------------------------------------------
(* The backend requests on their own *)

InitRequest == UnitIdleInit /\ LedgerInit /\ LimiterIdleInit /\ MonitorIdleInit /\ LoopIdleInit
SpecRequest == InitRequest /\ [][RequestNext]_vars

\* C12: a request makes at most three attempts, every attempt but the last
\* ended in a transport-level failure, and an attempt that ended in an HTTP
\* rejection is the last one, its error being what the call raises.
C12_RetryTransportOnly ==
    /\ Len(req.history) <= STOP_AFTER_ATTEMPT
    /\ \A i \in 1..(Len(req.history) - 1) : req.history[i] \in TransportFailures
    /\ \A i \in DOMAIN req.history :
          req.history[i] = "HTTPError" => (req.pc = "raised" /\ req.result = "HTTPError")

----------------------------------------------------------------------------
(* The audit log on its own *)

InitAudit == UnitIdleInit /\ LedgerInit /\ LimiterIdleInit /\ MonitorIdleInit /\ LoopIdleInit
SpecAudit == InitAudit /\ [][AuditNext]_vars

\* C13: whenever no log_order_action call is in progress, each of the day's
\* confirmed / rejected / completed counters equals the number of audit rows
\* of that action, store failures during the call included.
C13_CountersMatchLog ==
    audit.pc = "idle" =>
        \A a \in CountedActions : audit.stats[a] = audit.rows[a]

----------------------------------------------------------------------------
(* The button presses on their own *)

InitPress == UnitIdleInit /\ LedgerInit /\ LimiterIdleInit /\ MonitorIdleInit /\ LoopIdleInit
SpecPress == InitPress /\ [][PressNext]_vars

\* C14: when the handling of a press is over, whatever path it took
\* (unauthorised, rate-limited, malformed payload, order not found, status
\* update failed, exception, success), callback.answer was called at least
\* once.
C14_EveryPressAnswered ==
    press.pc = "done" =>
        /\ press.path \in {"unauthorised", "rate_limited", "malformed"} \cup WorkOutcomes
        /\ press.answers >= 1

\* A press whose handler raised after its first answer, in a handler whose
\* except block sends a chat message only.
C14_Witness ==
    /\ press.pc = "done"
    /\ press.path = "exception"
    /\ press.handler = "confirm_order"
    /\ press.answers = 1

----------------------------------------------------------------------------
(* The retention sweep on its own *)

InitSweep ==
    SweepInit /\ ReqIdleInit /\ AuditIdleInit /\ PressIdleInit /\ ParsedIdleInit /\ HouseIdleInit
        /\ LedgerInit
        /\ LimiterIdleInit /\ MonitorIdleInit /\ LoopIdleInit
SpecSweep == InitSweep /\ [][SweepNext]_vars

\* A row's notified_at is older than the sweep's cutoff, now minus the
\* horizon, both on the one clock.
OlderThanHorizon(r, l) ==
    r < l.now - l.days \/ (r = l.now - l.days /\ l.frac)

\* C15: right after a sweep with horizon H, the rows gone are exactly those
\* whose notified_at was older than now - H; a row inside the horizon, the
\* one next to the cutoff included, is kept.
C15_SweepRemovesOldOnly ==
    (sweep.last.done /\ sweep.last.now = sweep.now) =>
        \A r \in sweep.last.before :
            (r \in sweep.rows) <=> ~OlderThanHorizon(r, sweep.last)

----------------------------------------------------------------------------
(* parse_callback_data on its own *)

InitCallback == UnitIdleInit /\ LedgerInit /\ LimiterIdleInit /\ MonitorIdleInit /\ LoopIdleInit
SpecCallback == InitCallback /\ [][CallbackNext]_vars

\* The payloads that are the expected action, ':' and a positive integer:
\* the integer may stand between blanks and carry a '+'.
IsActionAndPositiveId(data) ==
    LET n == Len(ExpectedAction) IN
    /\ Len(data) > n + 1
    /\ \A k \in 1..n : data[k] = ExpectedAction[k]
    /\ data[n + 1] = ":"
    /\ \E i \in (n + 2)..Len(data), j \in (n + 2)..Len(data) :
        /\ i <= j
        /\ \A k \in (n + 2)..(i - 1) :
               data[k] = Blank \/ (k = i - 1 /\ data[k] = "+")
        /\ \A k \in i..j : data[k] \in DigitChars
        /\ \E k \in i..j : data[k] # "0"
        /\ \A k \in (j + 1)..Len(data) : data[k] = Blank

----------------------------------------------------------------------------
(* get_admin_full_config on its own *)

InitConfig == UnitIdleInit /\ LedgerInit /\ LimiterIdleInit /\ MonitorIdleInit /\ LoopIdleInit
SpecConfig == InitConfig /\ [][ConfigNext]_vars

\* A numeric id: digits, after at most one minus.
IsNumericId(x) ==
    /\ x # << >>
    /\ \A i \in DOMAIN x : x[i] \in DigitChars \/ (i = 1 /\ x[i] = "-")
    /\ \E i \in DOMAIN x : x[i] \in DigitChars

\* The fields of the entries of a table, empty entries left out.
EntryFields(text) ==
    LET entries == SelectSeq(split(text, ","), LAMBDA entry : entry # << >>)
    IN  [i \in DOMAIN entries |-> split(entries[i], ":")]

\* C17: the table is accepted exactly when it has an entry and every entry
\* has two or three fields, none empty, with numeric user_id and chat_id; an
\* accepted table maps each user_id to its warehouse and chat_id, the chat_id
\* being the user_id when the handling has none.
C17_AdminTableParsed ==
    parsed.fn = "get_admin_full_config" =>
        LET fields == EntryFields(parsed.input)
            wellFormed ==
                /\ fields # << >>
                /\ \A i \in DOMAIN fields :
                      /\ Len(fields[i]) \in {2, 3}
                      /\ \A k \in DOMAIN fields[i] : fields[i][k] # << >>
                      /\ IsNumericId(fields[i][1])
                      /\ Len(fields[i]) = 3 => IsNumericId(fields[i][3])
        IN  /\ ~parsed.result.error <=> wellFormed
            /\ ~parsed.result.error =>
                  /\ DOMAIN parsed.result.config = {fields[i][1] : i \in DOMAIN fields}
                  /\ \A i \in DOMAIN fields :
                        \E j \in i..Len(fields) :
                            /\ fields[j][1] = fields[i][1]
                            /\ parsed.result.config[fields[i][1]] =
                                 [warehouse |-> fields[j][2],
                                  chat_id |-> IF Len(fields[j]) = 2 THEN fields[j][1]
                                              ELSE fields[j][3]]

----------------------------------------------------------------------------
(* The check, candidate by candidate, on its own *)

InitBatch == UnitIdleInit /\ LedgerInit /\ LimiterIdleInit /\ MonitorIdleInit /\ LoopIdleInit
SpecBatch == InitBatch /\ [][BatchNext]_vars

\* C22: when the check is over, every candidate it found was processed or
\* had its failure caught, also when writing the error-log handling failed.
C22_FailureSparesTheRest ==
    batch.pc = "returning" => batch.attempted = batch.found

\* C23: between checks, table monitoring_checks holds one row per completed
\* check.
C23_OneRecordPerTick ==
    batch.pc = "idle" => batch.monitoring_checks = batch.checks

----------------------------------------------------------------------------
(* The retention block on its own *)

InitRetention == UnitIdleInit /\ LedgerInit /\ LimiterIdleInit /\ MonitorIdleInit /\ LoopIdleInit
SpecRetention == InitRetention /\ [][RetentionNext]_vars

\* C24: the tick that brings cleanup_counter to 1440 and whose sweep does
\* not raise leaves no row past its horizon in any of the three tables and
\* starts the count again; a sweep that raises leaves the loop running.
C24_SweepsEveryDay ==
    [][cleanup_counter + 1 >= CLEANUP_EVERY /\ cleanup_counter' = 0 =>
           \A t \in TableNames : "old" \notin tables'[t]]_vars

----------------------------------------------------------------------------
(* The cache refresh gate on its own *)

InitCache == UnitIdleInit /\ LedgerInit /\ LimiterIdleInit /\ MonitorIdleInit /\ LoopIdleInit
SpecCache == InitCache /\ [][CacheNext]_vars

C25_FailedRefreshWitness ==
    /\ cache.pc = "check"
    /\ cache.outcome = "raised"
    /\ cache.last_cache_refresh_date # cache.date

----------------------------------------------------------------------------
(* A button handler from its call to its return, on its own *)

InitEntry == UnitIdleInit /\ LedgerInit /\ LimiterIdleInit /\ MonitorIdleInit /\ LoopIdleInit
SpecEntry == InitEntry /\ [][EntryNext]_vars

\* C31: a press the limiter answered is_limited = True ends at once: it
\* fetches nothing from the backend, updates no status, reads and writes no
\* ledger row and adds no audit handling, whichever the handler.
C31_LimitedPressDoesNothing ==
    handling.is_limited =>
        /\ handling.pc = "done"
        /\ handling.path = "rate_limited"
        /\ handling.effects = {}

\* A handler has let a press through to its work and then refused the next
\* one, over its limit.
C31_Witness ==
    /\ handling.is_limited
    /\ handling.pc = "done"
    /\ handling.handler = "discuss_replacement"
    /\ handling.keys["discuss_replacement"].value = handler_limit("discuss_replacement") + 1
    /\ handling.keys["confirm_order"].value >= 1

\* C32: a press whose payload is malformed causes nothing and leaves the
\* user's counter as it was.
C32_MalformedPressCostsNothing ==
    handling.path = "malformed" => (handling.effects = {} /\ handling.consumed = 0)

----------------------------------------------------------------------------
(* The rate limiter on its own *)

InitLimiter == LimiterInit /\ LedgerInit /\ MonitorIdleInit /\ LoopIdleInit /\ UnitIdleInit

SpecLimiter == InitLimiter /\ [][LimiterNext]_vars

\* C6: while no store call has failed, the k-th check of a window (k <= L)
\* answers (false, L - k), every later check of the window answers (true, 0),
\* and the first check after the window has elapsed starts a new window and
\* answers (false, L - 1).
C6_FixedWindow ==
    (~rl_failed /\ rl_last.key \in RlKeys)
    => LET k == rl_win[rl_last.key].count IN
       /\ k >= 1
       /\ k <= rl_limit => (~rl_last.is_limited /\ rl_last.remaining = rl_limit - k)
       /\ k > rl_limit => (rl_last.is_limited /\ rl_last.remaining = 0)

\* A check refused inside a window, and a check admitted again in a later window.
C6_Witness ==
    /\ ~rl_failed
    /\ rl_last.key \in RlKeys
    /\ rl_last.is_limited
    /\ rl_win[rl_last.key].count = rl_limit + 1
    /\ rl_limit = MaxLimit

\* C7: a check during which the store could not be reached (no client since
\* construction, or a store call raising) answers is_limited = false.
C7_FailOpen ==
    (rl_last.key \in RlKeys /\ rl_last.failed) => ~rl_last.is_limited

\* A store failure on a check whose counter is already past the limit.
C7_Witness ==
    /\ rl_last.key \in RlKeys
    /\ rl_last.failed
    /\ rl_store[rl_last.key].value > rl_limit

RECURSIVE SumSeq(_)
SumSeq(q) == IF q = << >> THEN 0 ELSE Head(q) + SumSeq(Tail(q))

\* C30: while no store call has failed, the checks of one key answered
\* is_limited = False within any stretch of rl_window seconds, both ends
\* included, number at most 2 * limit.
C30_BurstAtMostTwiceLimit ==
    (redis = "client" /\ ~rl_failed) =>
        \A k \in RlKeys : SumSeq(rl_admitted[k]) <= 2 * rl_limit

\* limit checks were let through in one window and limit more in the first
\* second of the next, all within rl_window seconds.
C30_Witness ==
    /\ redis = "client"
    /\ ~rl_failed
    /\ rl_window > 1
    /\ rl_limit > 1
    /\ \E k \in RlKeys :
          /\ SumSeq(rl_admitted[k]) = 2 * rl_limit
          /\ rl_admitted[k][1] = rl_limit

\* C38: every rate-limit counter that holds a value of at least 1 has an
\* expiry, at most the window away: no counter stays in the store without one.
C38_CounterHasExpiry ==
    \A k \in RlKeys :
        rl_store[k].value >= 1 => rl_store[k].ttl \in 1..rl_window

====
